---- MODULE Spec2Model ----
(***************************************************************************)
(* A model of the ray-casting engine of src/raycast.c.                     *)
(*                                                                         *)
(* Conventions                                                             *)
(*  - A colour (uint32_t, 0xAARRGGBB) is the tuple <<A, R, G, B>> of its   *)
(*    four bytes: the packed value does not fit the checker's integers.    *)
(*  - The framebuffer `pixels` is kept sparse: `fill` is the value of     *)
(*    every pixel that has not been written one by one, `written` maps     *)
(*    the indices written one by one to their colour.                      *)
(*  - A float world coordinate is an integer number of hundredths (the     *)
(*    code's 0.01 offset is 1); a float distance is an integer number of   *)
(*    tenths, rounded down (the rounding of sqrt).                         *)
(*  - A ray direction (rayDirX, rayDirY) is an integer vector: the grid    *)
(*    tests read only its signs, its zero tests and the two quotients      *)
(*    rayDirX/rayDirY and rayDirY/rayDirX.                                 *)
(*  - Each part of the program has its own specification (SpecFb,          *)
(*    SpecLine, ...); the variables of the other parts stay idle in it.    *)
(***************************************************************************)
EXTENDS Integers, Sequences, FiniteSets, TLC

VARIABLES
    pixels,     \* the framebuffer: [fill, written]
    last,       \* the framebuffer operation that ran last, its arguments, and the framebuffer before it
    line,       \* r_drawline's locals while its loop runs
    shade,      \* the brightness factors computed last, for a nearer and a farther distance
    map,        \* the wall grid, row-major
    player,     \* the camera: x and y in hundredths
    ray,        \* r_raycast's locals for the ray being cast
    map_sprites,    \* the sprite grid, row-major
    wall_distances, \* r_raycast's wall_distances[], in ten-thousandths
    sprites,    \* r_render_sprites' sprites[], sprite_count being its length
    spr,        \* r_render_sprites' position and its locals for the sprite being drawn
    frame,      \* rungame's position in the main loop, and what the frame has done so far
    lookup      \* the texture lookup made last: the function, its argument and its result

vars ==
    <<pixels, last, line, shade, map, player, ray, map_sprites, wall_distances, sprites, spr,
      frame, lookup>>

\* The variables of r_render_sprites.
spriteVars == <<map_sprites, wall_distances, sprites, spr>>

\* The variables each specification leaves idle.
idleInFb == <<line, shade, map, player, ray, spriteVars, frame, lookup>>
idleInLine == <<last, shade, map, player, ray, spriteVars, frame, lookup>>
idleInShade == <<pixels, last, line, map, player, ray, spriteVars, frame, lookup>>
idleInRay == <<last, line, shade, spriteVars, frame, lookup>>
idleInSprites == <<pixels, last, line, shade, map, ray, frame, lookup>>
idleInInput == <<pixels, last, line, shade, map, ray, spriteVars, lookup>>
idleInLookup == <<pixels, last, line, shade, map, player, ray, spriteVars, frame>>
idleInFrame == <<pixels, last, line, shade, map, map_sprites, lookup>>
idleInTexel == <<pixels, last, line, shade, map, player, ray, spriteVars, frame>>
idleInHud == <<last, line, shade, map, player, ray, spriteVars, lookup>>

(***************************************************************************)
(* Program constants                                                       *)
(***************************************************************************)
SCREEN_WIDTH == 1024
SCREEN_HEIGHT == 512
RAY_COUNT == 256
TEXTURE_SIZE == 64
MAPX == 8
MAPY == 8
MAP_CELL_SIZE == 64

(***************************************************************************)
(* Arithmetic helpers                                                      *)
(***************************************************************************)
Abs(a) == IF a < 0 THEN -a ELSE a

\* C's integer division: truncation toward zero (b > 0).
CDiv(a, b) == IF a >= 0 THEN a \div b ELSE -((-a) \div b)

Max(a, b) == IF a > b THEN a ELSE b

\* floor(sqrt(n)), by bisection between lo and hi (lo*lo <= n < hi*hi)
RECURSIVE SqrtBetween(_, _, _)
SqrtBetween(n, lo, hi) ==
    IF hi - lo <= 1 THEN lo
    ELSE LET mid == (lo + hi) \div 2
         IN  IF mid * mid <= n THEN SqrtBetween(n, mid, hi) ELSE SqrtBetween(n, lo, mid)

\* sqrt, rounded down to an integer (n < 46340 * 46340)
ISqrt(n) == SqrtBetween(n, 0, 46340)

(***************************************************************************)
(* The static data                                                         *)
(***************************************************************************)
\* map[], as shipped
ShippedMap ==
    << 3,3,3,3,3,1,1,1,
       3,0,0,0,0,1,0,1,
       3,0,0,0,0,0,0,1,
       3,0,0,0,0,0,0,1,
       3,3,0,0,0,0,2,1,
       1,0,0,0,0,2,2,3,
       1,0,0,0,0,0,0,3,
       1,1,1,1,1,1,1,3 >>

\* map_sprites[], as shipped
ShippedSprites ==
    << 0,0,0,0,0,0,0,0,
       0,2,0,0,5,0,6,0,
       0,0,0,8,0,0,8,0,
       0,3,0,0,0,0,7,0,
       0,0,0,0,0,1,0,0,
       0,0,0,8,0,0,0,0,
       0,2,0,0,0,8,4,0,
       0,0,0,0,0,0,0,0 >>

\* The start pose: x = 200, y = 195, angle = 295.0 (in tenths of a degree).
StartPlayer == [x |-> 20000, y |-> 19500, angle |-> 2950]

NoRay == [pc |-> "idle"]

NoSprite == [pc |-> "idle"]

NoDistances == [r \in {} |-> 0]

\* The values of the variables of a part of the program that is not running.
StartPose == map = ShippedMap /\ player = StartPlayer
IdleLine == line = [pc |-> "idle"]
IdleShade == shade = [kind |-> "none"]
IdleRay == ray = NoRay
IdleLoop == frame = [pc |-> "idle"] /\ lookup = [fn |-> "none"]
IdleSprites ==
    /\ map_sprites = ShippedSprites
    /\ wall_distances = NoDistances
    /\ sprites = <<>>
    /\ spr = NoSprite

(***************************************************************************)
(* Colours                                                                 *)
(***************************************************************************)
BACKGROUND == <<255, 187, 187, 187>>    \* 0xFFBBBBBB
PLAYER_COLOR == <<255, 255, 0, 144>>    \* 0xffff0090
WALL_COLOR == <<255, 136, 136, 136>>    \* 0xff888888
DEBUG_RAY_COLOR == <<255, 0, 187, 187>> \* 0xFF00BBBB

\* What malloc's memory may hold before the first clear.
GarbagePixels == {<<0, 0, 0, 0>>, <<205, 205, 205, 205>>}

Colors == {PLAYER_COLOR, WALL_COLOR}

(***************************************************************************)
(* The framebuffer                                                         *)
(***************************************************************************)
NoWrites == [i \in {} |-> BACKGROUND]

PixelAt(p, i) == IF i \in DOMAIN p.written THEN p.written[i] ELSE p.fill

OnScreen(x, y) == ~(x < 0 \/ x >= SCREEN_WIDTH \/ y < 0 \/ y >= SCREEN_HEIGHT)

PixelIndex(x, y) == SCREEN_WIDTH * y + x

\* pixels[index] = color
Store(p, index, color) ==
    [p EXCEPT !.written = [i \in DOMAIN p.written \cup {index} |->
                              IF i = index THEN color ELSE p.written[i]]]

\* A mutant of r_drawpoint: the upper bound on x is forgotten.
DrawPointNoXBound(p, x, y, color) ==
    IF x < 0 \/ y < 0 \/ y >= SCREEN_HEIGHT
    THEN p
    ELSE LET index == PixelIndex(x, y)
         IN  IF index < 0 \/ index >= SCREEN_WIDTH * SCREEN_HEIGHT
             THEN p
             ELSE Store(p, index, color)

\* r_drawpoint
DrawPoint(p, x, y, color) ==
    IF x < 0 \/ x >= SCREEN_WIDTH \/ y < 0 \/ y >= SCREEN_HEIGHT
    THEN p
    ELSE LET index == PixelIndex(x, y)
         IN  IF index < 0 \/ index >= SCREEN_WIDTH * SCREEN_HEIGHT
             THEN p
             ELSE Store(p, index, color)

\* A mutant of memset: the value is stored as a whole word, not as a byte.
MemsetWord(p, value) == [fill |-> value, written |-> NoWrites]

\* memset(pixels, value, 4 * SCREEN_WIDTH * SCREEN_HEIGHT): the value is
\* converted to unsigned char (its low byte) and every byte of the buffer
\* is set to it, so each pixel is that byte four times.
Memset(p, value) ==
    LET byte == value[4]
    IN  [fill |-> <<byte, byte, byte, byte>>, written |-> NoWrites]

\* r_clearscreenbuffer
ClearScreenBuffer(p) == Memset(p, BACKGROUND)

(***************************************************************************)
(* r_drawline: Bresenham                                                   *)
(***************************************************************************)
LineFuel == 4096

\* The locals before the loop.
LineStart(x0, y0, x1, y1) ==
    LET dx == IF x1 > x0 THEN x1 - x0 ELSE x0 - x1
        dy == IF y1 > y0 THEN y1 - y0 ELSE y0 - y1
    IN  [x0 |-> x0, y0 |-> y0, x1 |-> x1, y1 |-> y1,
         dx |-> dx, dy |-> dy,
         sx |-> IF x0 < x1 THEN 1 ELSE -1,
         sy |-> IF y0 < y1 THEN 1 ELSE -1,
         err |-> CDiv(IF dx > dy THEN dx ELSE -dy, 2)]

\* if (x0 == x1 && y0 == y1) break;
LineAtEnd(s) == s.x0 = s.x1 /\ s.y0 = s.y1

\* A mutant of the loop body: the Y step is taken when e2 <= dy.
LineStepLoose(s) ==
    LET e2 == s.err
        stepX == e2 > -s.dx
        stepY == e2 <= s.dy
    IN  [s EXCEPT !.err = s.err - (IF stepX THEN s.dy ELSE 0) + (IF stepY THEN s.dx ELSE 0),
                  !.x0 = IF stepX THEN s.x0 + s.sx ELSE s.x0,
                  !.y0 = IF stepY THEN s.y0 + s.sy ELSE s.y0]

\* The loop body after the break test: e2 = err, then the X and the Y step.
LineStep(s) ==
    LET e2 == s.err
        stepX == e2 > -s.dx
        stepY == e2 < s.dy
    IN  [s EXCEPT !.err = s.err - (IF stepX THEN s.dy ELSE 0) + (IF stepY THEN s.dx ELSE 0),
                  !.x0 = IF stepX THEN s.x0 + s.sx ELSE s.x0,
                  !.y0 = IF stepY THEN s.y0 + s.sy ELSE s.y0]

\* The points the loop passes to r_drawpoint in its next n iterations,
\* whether it has left by then, and the locals it holds then.  The
\* iterations are split in halves to keep the evaluation shallow.
RECURSIVE LineWalk(_, _)
LineWalk(s, n) ==
    IF n <= 1
    THEN [pts |-> {<<s.x0, s.y0>>}, done |-> LineAtEnd(s),
          end |-> IF LineAtEnd(s) THEN s ELSE LineStep(s)]
    ELSE LET first == LineWalk(s, n \div 2)
         IN  IF first.done THEN first
             ELSE LET rest == LineWalk(first.end, n - n \div 2)
                  IN  [pts |-> first.pts \cup rest.pts, done |-> rest.done, end |-> rest.end]

\* r_drawpoint for each of a set of points, all in one colour
DrawPoints(p, pts, color) ==
    LET indices == {PixelIndex(q[1], q[2]) : q \in {r \in pts : OnScreen(r[1], r[2])}}
    IN  [p EXCEPT !.written = [i \in DOMAIN p.written \cup indices |->
                                  IF i \in indices THEN color ELSE p.written[i]]]

\* r_drawline, the whole call (LineFuel iterations are more than any line
\* of the program needs)
DrawLine(p, x0, y0, x1, y1, color) ==
    DrawPoints(p, LineWalk(LineStart(x0, y0, x1, y1), LineFuel).pts, color)

RECURSIVE RectangleRowsShort(_, _, _, _, _, _)
RectangleRowsShort(p, x, y, size, color, i) ==
    IF i >= size THEN p
    ELSE RectangleRowsShort(DrawLine(p, x, y + i, x + size, y + i, color),
                            x, y, size, color, i + 1)

\* A mutant of r_drawrectangle: the row loop runs while i < size.
DrawRectangleShort(p, x, y, size, color) == RectangleRowsShort(p, x, y, size, color, 0)

RECURSIVE RectangleRows(_, _, _, _, _, _)
RectangleRows(p, x, y, size, color, i) ==
    IF i > size THEN p
    ELSE RectangleRows(DrawLine(p, x, y + i, x + size, y + i, color),
                       x, y, size, color, i + 1)

\* r_drawrectangle
DrawRectangle(p, x, y, size, color) == RectangleRows(p, x, y, size, color, 0)

(***************************************************************************)
(* SpecFb: the framebuffer primitives, called with arguments at and        *)
(* around the screen's corners                                             *)
(***************************************************************************)
MaxOps == 2
MaxRectSize == 2

FbXs == {-1, 0, SCREEN_WIDTH - 1, SCREEN_WIDTH}
FbYs == {-1, 0, SCREEN_HEIGHT - 1, SCREEN_HEIGHT}

NoLine == [pc |-> "idle"]

NoShade == [kind |-> "none"]

NoOp == [op |-> "none", n |-> 0]

InitFb ==
    /\ pixels \in [fill : GarbagePixels, written : {NoWrites}]
    /\ last = NoOp
    /\ StartPose
    /\ IdleLine /\ IdleShade /\ IdleRay /\ IdleSprites /\ IdleLoop

FbClear ==
    /\ last.n < MaxOps
    /\ pixels' = ClearScreenBuffer(pixels)
    /\ last' = [op |-> "r_clearscreenbuffer", n |-> last.n + 1, before |-> pixels]
    /\ UNCHANGED idleInFb

FbPoint ==
    /\ last.n < MaxOps
    /\ \E x \in FbXs, y \in FbYs, color \in Colors :
          /\ pixels' = DrawPoint(pixels, x, y, color)
          /\ last' = [op |-> "r_drawpoint", n |-> last.n + 1, before |-> pixels,
                      x |-> x, y |-> y, color |-> color]
    /\ UNCHANGED idleInFb

FbRectangle ==
    /\ last.n < MaxOps
    /\ \E x \in FbXs, y \in FbYs, size \in 0..MaxRectSize :
          /\ pixels' = DrawRectangle(pixels, x, y, size, WALL_COLOR)
          /\ last' = [op |-> "r_drawrectangle", n |-> last.n + 1, before |-> pixels,
                      x |-> x, y |-> y, size |-> size, color |-> WALL_COLOR]
    /\ UNCHANGED idleInFb

NextFb == FbClear \/ FbPoint \/ FbRectangle

SpecFb == InitFb /\ [][NextFb]_vars

\* The indices either buffer holds one by one; every other pixel is the fill.
Touched(p, q) == DOMAIN p.written \cup DOMAIN q.written

\* The pixels whose value differs between two buffers of equal fill.
Changed(p, q) == {i \in Touched(p, q) : PixelAt(p, i) # PixelAt(q, i)}

\* C3: r_drawpoint with x or y off the screen leaves every pixel unchanged;
\* with (x, y) on the screen the only pixel it may change is the one at index
\* SCREEN_WIDTH*y+x, which then holds the colour.
C3_DrawPointBounds ==
    last.op = "r_drawpoint" =>
        /\ pixels.fill = last.before.fill
        /\ IF OnScreen(last.x, last.y)
           THEN /\ Changed(last.before, pixels) \subseteq {SCREEN_WIDTH * last.y + last.x}
                /\ PixelAt(pixels, SCREEN_WIDTH * last.y + last.x) = last.color
           ELSE /\ Changed(last.before, pixels) = {}
                /\ DOMAIN pixels.written = DOMAIN last.before.written

\* C3 witness: a point one past the right edge was drawn on a buffer that
\* already holds the first pixel of the next row.
C3_Witness ==
    /\ last.op = "r_drawpoint"
    /\ last.x = SCREEN_WIDTH /\ last.y = 0
    /\ SCREEN_WIDTH \in DOMAIN last.before.written
    /\ last.before.written[SCREEN_WIDTH] # last.color

\* The pixels r_drawrectangle(x, y, N) is to set: the on-screen (x+i, y+j).
RectanglePixels(x, y, N) ==
    {PixelIndex(x + i, y + j) : <<i, j>> \in
        {c \in (0..N) \X (0..N) : OnScreen(x + c[1], y + c[2])}}

\* C5: r_drawrectangle(x, y, N, color) sets exactly the on-screen pixels
\* (x+i, y+j), 0 <= i, j <= N, to the colour and changes no other pixel.
C5_RectangleExtent ==
    last.op = "r_drawrectangle" =>
        /\ pixels.fill = last.before.fill
        /\ \A i \in RectanglePixels(last.x, last.y, last.size) :
              PixelAt(pixels, i) = last.color
        /\ DOMAIN pixels.written =
              DOMAIN last.before.written \cup RectanglePixels(last.x, last.y, last.size)
        /\ Changed(last.before, pixels) \subseteq RectanglePixels(last.x, last.y, last.size)

\* C5 witness: a rectangle of size 2 fully on screen has set its 3 x 3 pixels.
C5_Witness ==
    /\ last.op = "r_drawrectangle"
    /\ last.size = 2 /\ last.x = 0 /\ last.y = 0
    /\ Cardinality(RectanglePixels(last.x, last.y, last.size)) = 9
    /\ \A i \in RectanglePixels(last.x, last.y, last.size) : PixelAt(pixels, i) = last.color

\* C6 (as claimed): after r_clearscreenbuffer every pixel holds 0xFFBBBBBB.
C6_ClearIsBackground ==
    last.op = "r_clearscreenbuffer" =>
        /\ pixels.fill = BACKGROUND
        /\ \A i \in DOMAIN pixels.written : pixels.written[i] = BACKGROUND

(***************************************************************************)
(* SpecLine: r_drawline, one loop iteration per step, between endpoints    *)
(* at and around the screen's top left corner                              *)
(***************************************************************************)
MaxLineCoord == 3
MaxLineSteps == 10

LineCoords == -1..MaxLineCoord

InitLine ==
    /\ pixels \in [fill : GarbagePixels, written : {NoWrites}]
    /\ last = NoOp
    /\ StartPose
    /\ IdleLine /\ IdleShade /\ IdleRay /\ IdleSprites /\ IdleLoop

\* r_drawline is entered: the locals are set up.
LineCall ==
    /\ line.pc = "idle"
    /\ \E x0 \in LineCoords, y0 \in LineCoords, x1 \in LineCoords, y1 \in LineCoords :
          line' = [pc |-> "loop", s |-> LineStart(x0, y0, x1, y1), n |-> 0,
                   fromX |-> x0, fromY |-> y0, color |-> PLAYER_COLOR]
    /\ UNCHANGED <<pixels, idleInLine>>

\* One iteration of while (1): plot, leave at the end point, else step.
LineIterate ==
    /\ line.pc = "loop"
    /\ line.n < MaxLineSteps
    /\ pixels' = DrawPoint(pixels, line.s.x0, line.s.y0, line.color)
    /\ line' = IF LineAtEnd(line.s)
               THEN [line EXCEPT !.pc = "done"]
               ELSE [line EXCEPT !.s = LineStep(line.s), !.n = line.n + 1]
    /\ UNCHANGED idleInLine

NextLine == LineCall \/ LineIterate

SpecLine == InitLine /\ [][NextLine]_vars /\ WF_vars(LineIterate)

\* Whether the point (x, y), if it is on the screen, holds the colour.
Plotted(x, y, color) == OnScreen(x, y) => PixelAt(pixels, PixelIndex(x, y)) = color

\* C4: r_drawline terminates for every pair of endpoints, after at most
\* max(|x1-x0|, |y1-y0|) steps, and has then plotted both the start point
\* and the end point.
C4_LineTerminates ==
    /\ [](line.pc \in {"loop", "done"} => line.n <= Max(line.s.dx, line.s.dy))
    /\ [](line.pc = "done" =>
            /\ Plotted(line.fromX, line.fromY, line.color)
            /\ Plotted(line.s.x1, line.s.y1, line.color))
    /\ ((line.pc = "loop") ~> (line.pc = "done"))

\* C4 witness: a slanted line from (0, 3) to (2, 0) has ended with both
\* end pixels set.
C4_Witness ==
    /\ line.pc = "done"
    /\ line.fromX = 0 /\ line.fromY = 3 /\ line.s.x1 = 2 /\ line.s.y1 = 0
    /\ PixelAt(pixels, PixelIndex(0, 3)) = line.color
    /\ PixelAt(pixels, PixelIndex(2, 0)) = line.color
    /\ line.n = 3

(***************************************************************************)
(* Distance shading.  A brightness factor is an integer number of          *)
(* 1/BrightOne; a distance is in tenths.  With BrightOne = 2112000 every   *)
(* product and quotient of the four formulas is exact.                     *)
(***************************************************************************)
BrightOne == 2112000                \* 1.0f
WALL_DISTANCE_DIMMING == 15
FLOOR_DISTANCE_DIMMING == 15
CEILING_DISTANCE_DIMMING == 15
SPRITE_DISTANCE_DIMMING == 11
WALL_MIN_BRIGHTNESS == 1478400      \* 0.7f
FLOOR_MIN_BRIGHTNESS == 1372800     \* 0.65f
CEILING_MIN_BRIGHTNESS == 1372800   \* 0.65f
SPRITE_MIN_BRIGHTNESS == 1478400    \* 0.7f

\* 1.0f - (distance / (MAP_CELL_SIZE * dimming))
Attenuation(distance, dimming) ==
    BrightOne - (BrightOne \div (MAP_CELL_SIZE * dimming * 10)) * distance

\* r_raycast, wall slice: the factor multiplied into the texture colour.
WallDarkening(correctedDistance, hitVertical) ==
    LET wallDarkening == Attenuation(correctedDistance, WALL_DISTANCE_DIMMING)
        clamped == IF wallDarkening < WALL_MIN_BRIGHTNESS
                   THEN WALL_MIN_BRIGHTNESS ELSE wallDarkening
    IN  IF hitVertical THEN (clamped * 4) \div 5 ELSE clamped

\* r_raycast, floor row
FloorDarkening(floorDistance) ==
    LET darkening == Attenuation(floorDistance, FLOOR_DISTANCE_DIMMING)
    IN  IF darkening < FLOOR_MIN_BRIGHTNESS THEN FLOOR_MIN_BRIGHTNESS ELSE darkening

\* r_raycast, ceiling row: the attenuation times 0.85f, then the minimum
CeilingDarkening(ceilDistance) ==
    LET darkening == (Attenuation(ceilDistance, CEILING_DISTANCE_DIMMING) * 17) \div 20
    IN  IF darkening < CEILING_MIN_BRIGHTNESS THEN CEILING_MIN_BRIGHTNESS ELSE darkening

\* r_render_sprites, sprite pixel
SpriteDark(dist) ==
    LET dark == Attenuation(dist, SPRITE_DISTANCE_DIMMING)
    IN  IF dark < SPRITE_MIN_BRIGHTNESS THEN SPRITE_MIN_BRIGHTNESS ELSE dark

\* The configured minimum of a surface kind.
MinBrightness(kind) ==
    CASE kind = "wall" -> WALL_MIN_BRIGHTNESS
      [] kind = "floor" -> FLOOR_MIN_BRIGHTNESS
      [] kind = "ceiling" -> CEILING_MIN_BRIGHTNESS
      [] kind = "sprite" -> SPRITE_MIN_BRIGHTNESS

(***************************************************************************)
(* SpecShade: the four shading formulas on pairs of distances              *)
(***************************************************************************)
ShadeDistStep == 250
MaxShadeSamples == 24

ShadeDistances == {i * ShadeDistStep : i \in 0..MaxShadeSamples}

ShadePairs == {d \in ShadeDistances \X ShadeDistances : d[1] <= d[2]}

InitShade ==
    /\ pixels \in [fill : GarbagePixels, written : {NoWrites}]
    /\ last = NoOp
    /\ StartPose
    /\ IdleLine /\ IdleShade /\ IdleRay /\ IdleSprites /\ IdleLoop

ShadeWall ==
    /\ shade.kind = "none"
    /\ \E d \in ShadePairs, hitVertical \in BOOLEAN :
          shade' = [kind |-> "wall", hitVertical |-> hitVertical,
                    near |-> d[1], far |-> d[2],
                    bNear |-> WallDarkening(d[1], hitVertical),
                    bFar |-> WallDarkening(d[2], hitVertical)]
    /\ UNCHANGED idleInShade

ShadeFloor ==
    /\ shade.kind = "none"
    /\ \E d \in ShadePairs :
          shade' = [kind |-> "floor", hitVertical |-> FALSE,
                    near |-> d[1], far |-> d[2],
                    bNear |-> FloorDarkening(d[1]), bFar |-> FloorDarkening(d[2])]
    /\ UNCHANGED idleInShade

ShadeCeiling ==
    /\ shade.kind = "none"
    /\ \E d \in ShadePairs :
          shade' = [kind |-> "ceiling", hitVertical |-> FALSE,
                    near |-> d[1], far |-> d[2],
                    bNear |-> CeilingDarkening(d[1]), bFar |-> CeilingDarkening(d[2])]
    /\ UNCHANGED idleInShade

ShadeSprite ==
    /\ shade.kind = "none"
    /\ \E d \in ShadePairs :
          shade' = [kind |-> "sprite", hitVertical |-> FALSE,
                    near |-> d[1], far |-> d[2],
                    bNear |-> SpriteDark(d[1]), bFar |-> SpriteDark(d[2])]
    /\ UNCHANGED idleInShade

NextShade == ShadeWall \/ ShadeFloor \/ ShadeCeiling \/ ShadeSprite

SpecShade == InitShade /\ [][NextShade]_vars

\* C7 (as claimed): for each surface kind the brightness factor does not
\* increase with the distance and is never below the kind's minimum, wall
\* slices hit on a vertical face included.
C7_ShadingMonotoneAboveMin ==
    shade.kind # "none" =>
        /\ shade.bFar <= shade.bNear
        /\ shade.bNear >= MinBrightness(shade.kind)
        /\ shade.bFar >= MinBrightness(shade.kind)

\* What holds of the code: the same, wall slices hit on a vertical face
\* excepted; those are never below 0.8 times the wall minimum.
C7_ExceptVerticalFaces ==
    shade.kind # "none" =>
        /\ shade.bFar <= shade.bNear
        /\ ~shade.hitVertical => shade.bFar >= MinBrightness(shade.kind)
        /\ shade.hitVertical => shade.bFar >= (WALL_MIN_BRIGHTNESS * 4) \div 5

(***************************************************************************)
(* r_raycast: the two grid-line tests and the choice between them.         *)
(* testX of the horizontal test is the exact quotient testXn / den of      *)
(* integers (den = |rayDirY|), so the cell index floor(testX / cell) is    *)
(* computed without rounding; likewise testY of the vertical test.         *)
(***************************************************************************)
NO_HIT == 10000000          \* 1000000, in tenths
CELL == 6400                \* MAP_CELL_SIZE, in hundredths

\* map[mapY * MAPX + mapX]
WallAt(m, mapX, mapY) == m[mapY * MAPX + mapX + 1]

\* A mutant of the boundary check: column 0 and row 0 count as outside.
InGridFromOne(mapX, mapY) == ~(mapX <= 0 \/ mapX >= MAPX \/ mapY <= 0 \/ mapY >= MAPY)

\* The negation of the "map boundaries" condition of both tests.
InGrid(mapX, mapY) == ~(mapX < 0 \/ mapX >= MAPX \/ mapY < 0 \/ mapY >= MAPY)

\* sqrt(dx*dx + dy*dy) in tenths, of dx = dxn/den and dy = dyn/den hundredths
Distance(dxn, dyn, den) ==
    LET dx == CDiv(dxn, den * 10)
        dy == CDiv(dyn, den * 10)
    IN  ISqrt(dx * dx + dy * dy)

\* A mutant of the no-hit value: zero.
MissNear(steps) == [distance |-> 0, hitX |-> 0, hitY |-> 0, wallType |-> 0, steps |-> steps]

\* What a test holds when it found no wall.
Miss(steps) == [distance |-> NO_HIT, hitX |-> 0, hitY |-> 0, wallType |-> 0, steps |-> steps]

\* The loop of the horizontal test, from iteration `depth` on.
RECURSIVE HorizontalLoop(_, _, _, _, _, _, _, _)
HorizontalLoop(m, pl, den, testXn, testY, deltaXn, deltaY, depth) ==
    IF depth >= MAPY THEN Miss(depth)
    ELSE LET mapX == testXn \div (den * CELL)
             mapY == testY \div CELL
         IN  IF ~InGrid(mapX, mapY) THEN Miss(depth + 1)
             ELSE IF WallAt(m, mapX, mapY) > 0
                  THEN [distance |-> Distance(testXn - pl.x * den, (testY - pl.y) * den, den),
                        hitX |-> testXn \div den, hitY |-> testY,
                        wallType |-> WallAt(m, mapX, mapY), steps |-> depth + 1]
                  ELSE HorizontalLoop(m, pl, den, testXn + deltaXn, testY + deltaY,
                                      deltaXn, deltaY, depth + 1)

\* The horizontal grid-line test of one ray.
HorizontalTest(m, pl, rayDirX, rayDirY) ==
    IF rayDirY = 0 THEN Miss(0)
    ELSE LET deltaY == IF rayDirY < 0 THEN -CELL ELSE CELL
             firstY == IF rayDirY < 0
                       THEN (pl.y \div CELL) * CELL - 1
                       ELSE (pl.y \div CELL) * CELL + CELL
             den == Abs(rayDirY)
             num == IF rayDirY < 0 THEN -rayDirX ELSE rayDirX
         IN  HorizontalLoop(m, pl, den, pl.x * den + (firstY - pl.y) * num, firstY,
                            deltaY * num, deltaY, 0)

\* The loop of the vertical test, from iteration `depth` on.
RECURSIVE VerticalLoop(_, _, _, _, _, _, _, _)
VerticalLoop(m, pl, den, testX, testYn, deltaX, deltaYn, depth) ==
    IF depth >= MAPX THEN Miss(depth)
    ELSE LET mapX == testX \div CELL
             mapY == testYn \div (den * CELL)
         IN  IF ~InGrid(mapX, mapY) THEN Miss(depth + 1)
             ELSE IF WallAt(m, mapX, mapY) > 0
                  THEN [distance |-> Distance((testX - pl.x) * den, testYn - pl.y * den, den),
                        hitX |-> testX, hitY |-> testYn \div den,
                        wallType |-> WallAt(m, mapX, mapY), steps |-> depth + 1]
                  ELSE VerticalLoop(m, pl, den, testX + deltaX, testYn + deltaYn,
                                    deltaX, deltaYn, depth + 1)

\* The vertical grid-line test of one ray.
VerticalTest(m, pl, rayDirX, rayDirY) ==
    IF rayDirX = 0 THEN Miss(0)
    ELSE LET deltaX == IF rayDirX < 0 THEN -CELL ELSE CELL
             firstX == IF rayDirX < 0
                       THEN (pl.x \div CELL) * CELL - 1
                       ELSE (pl.x \div CELL) * CELL + CELL
             den == Abs(rayDirX)
             num == IF rayDirX < 0 THEN -rayDirY ELSE rayDirY
         IN  VerticalLoop(m, pl, den, firstX, pl.y * den + (firstX - pl.x) * num,
                          deltaX, deltaX * num, 0)

\* A mutant of the choice: the horizontal hit also wins a tie.
CloserHitOrEqual(H, V) ==
    IF H.distance <= V.distance
    THEN [hitX |-> H.hitX, hitY |-> H.hitY, distance |-> H.distance,
          hitVertical |-> FALSE, currentWallType |-> H.wallType]
    ELSE [hitX |-> V.hitX, hitY |-> V.hitY, distance |-> V.distance,
          hitVertical |-> TRUE, currentWallType |-> V.wallType]

\* "Determine which intersection is closer"
CloserHit(H, V) ==
    IF H.distance < V.distance
    THEN [hitX |-> H.hitX, hitY |-> H.hitY, distance |-> H.distance,
          hitVertical |-> FALSE, currentWallType |-> H.wallType]
    ELSE [hitX |-> V.hitX, hitY |-> V.hitY, distance |-> V.distance,
          hitVertical |-> TRUE, currentWallType |-> V.wallType]

\* (int) of a float held in hundredths
ToInt(v) == CDiv(v, 100)

\* r_drawline(player.x + 5, player.y + 5, hitX, hitY, 0xFF00BBBB)
DebugRay(p, pl, hit) ==
    DrawLine(p, ToInt(pl.x + 500), ToInt(pl.y + 500), ToInt(hit.hitX), ToInt(hit.hitY),
             DEBUG_RAY_COLOR)

(***************************************************************************)
(* SpecRay: one ray, from camera positions in every empty cell of three    *)
(* grids, in every direction with small integer components                 *)
(***************************************************************************)
MaxDir == 3
MaxRayIndex == 1

\* A grid whose border is wall 1 and whose interior is empty.
BorderMap ==
    [i \in 1..(MAPX * MAPY) |->
        LET mapX == (i - 1) % MAPX
            mapY == (i - 1) \div MAPX
        IN  IF mapX = 0 \/ mapX = MAPX - 1 \/ mapY = 0 \/ mapY = MAPY - 1 THEN 1 ELSE 0]

\* The same grid with one border cell of the top row and one of the left
\* column opened.
OpenMap == [BorderMap EXCEPT ![3 + 1] = 0, ![4 * MAPX + 1] = 0]

Maps == {ShippedMap, BorderMap, OpenMap}

\* Whether the outermost rows and columns of a grid are all wall cells.
Bordered(m) ==
    \A k \in 0..(MAPX - 1), l \in 0..(MAPY - 1) :
        (k = 0 \/ k = MAPX - 1 \/ l = 0 \/ l = MAPY - 1) => WallAt(m, k, l) > 0

\* Where in a cell the camera stands (hundredths from the cell's corner).
PlayerOffsets == {<<0, 0>>, <<3200, 3200>>, <<1700, 6399>>, <<6399, 1>>}

\* The camera positions inside the empty cells of a grid, and the start pose.
PlayerPositions(m) ==
    {[x |-> c[1] * CELL + o[1], y |-> c[2] * CELL + o[2], angle |-> StartPlayer.angle] :
        c \in {d \in (0..(MAPX - 1)) \X (0..(MAPY - 1)) : WallAt(m, d[1], d[2]) = 0},
        o \in PlayerOffsets}
    \cup (IF m = ShippedMap THEN {StartPlayer} ELSE {})

Directions == {d \in (-MaxDir..MaxDir) \X (-MaxDir..MaxDir) : d # <<0, 0>>}

InitRay ==
    /\ pixels \in {ClearScreenBuffer([fill |-> g, written |-> NoWrites]) : g \in GarbagePixels}
    /\ last = NoOp
    /\ IdleLine /\ IdleShade /\ IdleSprites /\ IdleLoop
    /\ map \in Maps
    /\ player \in PlayerPositions(map)
    /\ \E d \in Directions, r \in 0..MaxRayIndex :
          ray = [pc |-> "cast", r |-> r, rayDirX |-> d[1], rayDirY |-> d[2]]

\* "Check for horizontal grid line intersections"
CastHorizontal ==
    /\ ray.pc = "cast"
    /\ ray' = [pc |-> "horizontal", r |-> ray.r, rayDirX |-> ray.rayDirX, rayDirY |-> ray.rayDirY,
               H |-> HorizontalTest(map, player, ray.rayDirX, ray.rayDirY)]
    /\ UNCHANGED <<pixels, map, player, idleInRay>>

\* "Check for vertical grid line intersections"
CastVertical ==
    /\ ray.pc = "horizontal"
    /\ ray' = [pc |-> "vertical", r |-> ray.r, rayDirX |-> ray.rayDirX, rayDirY |-> ray.rayDirY,
               H |-> ray.H,
               V |-> VerticalTest(map, player, ray.rayDirX, ray.rayDirY)]
    /\ UNCHANGED <<pixels, map, player, idleInRay>>

\* "Determine which intersection is closer", and the debug ray of every
\* fourth ray on the 2D map
SelectHit ==
    /\ ray.pc = "vertical"
    /\ LET hit == CloserHit(ray.H, ray.V)
       IN  /\ ray' = [pc |-> "selected", r |-> ray.r,
                      rayDirX |-> ray.rayDirX, rayDirY |-> ray.rayDirY,
                      H |-> ray.H, V |-> ray.V, hit |-> hit]
           /\ pixels' = IF ray.r % 4 = 0 THEN DebugRay(pixels, player, hit) ELSE pixels
    /\ UNCHANGED <<map, player, idleInRay>>

\* C1: in a grid whose border is all wall, from every camera position in an
\* empty cell and in every direction, the chosen distance is a hit distance
\* and not the no-hit value, the horizontal test having taken at most MAPY
\* steps and the vertical test at most MAPX.
C1_BorderedGridHit ==
    (ray.pc = "selected" /\ Bordered(map)) =>
        /\ ray.hit.distance # NO_HIT
        /\ ray.hit.distance < NO_HIT
        /\ ray.hit.currentWallType > 0
        /\ ray.H.steps <= MAPY
        /\ ray.V.steps <= MAPX

\* C1 witness: in the shipped grid a ray found its wall only at the sixth
\* probe of the vertical test, the horizontal test having left the grid.
C1_Witness ==
    /\ ray.pc = "selected" /\ map = ShippedMap
    /\ ray.H.distance = NO_HIT /\ ray.H.steps > 0
    /\ ray.V.steps = 6
    /\ ray.hit.distance = ray.V.distance /\ ray.hit.distance < NO_HIT

TrigOne == 10000

\* 10000 * cos(d degrees), d = 0..90, at index d + 1
CosTable ==
    << 10000, 9998, 9994, 9986, 9976, 9962, 9945, 9925, 9903, 9877,
       9848, 9816, 9781, 9744, 9703, 9659, 9613, 9563, 9511, 9455,
       9397, 9336, 9272, 9205, 9135, 9063, 8988, 8910, 8829, 8746,
       8660, 8572, 8480, 8387, 8290, 8192, 8090, 7986, 7880, 7771,
       7660, 7547, 7431, 7314, 7193, 7071, 6947, 6820, 6691, 6561,
       6428, 6293, 6157, 6018, 5878, 5736, 5592, 5446, 5299, 5150,
       5000, 4848, 4695, 4540, 4384, 4226, 4067, 3907, 3746, 3584,
       3420, 3256, 3090, 2924, 2756, 2588, 2419, 2250, 2079, 1908,
       1736, 1564, 1392, 1219, 1045, 872, 698, 523, 349, 175,
       0 >>

\* 10000 * tan(d degrees), d = 0..45, at index d + 1
TanTable ==
    << 0, 175, 349, 524, 699, 875, 1051, 1228, 1405, 1584,
       1763, 1944, 2126, 2309, 2493, 2679, 2867, 3057, 3249, 3443,
       3640, 3839, 4040, 4245, 4452, 4663, 4877, 5095, 5317, 5543,
       5774, 6009, 6249, 6494, 6745, 7002, 7265, 7536, 7813, 8098,
       8391, 8693, 9004, 9325, 9657, 10000 >>

\* A mutant of m_fix_ang: negative angles are left alone.
FixAngNoNegative(a) == IF a > 3590 THEN a - 3600 ELSE a

\* m_fix_ang
FixAng(a) ==
    LET b == IF a > 3590 THEN a - 3600 ELSE a
    IN  IF b < 0 THEN b + 3600 ELSE b

\* 10000 * cos of an angle between 0 and 90 degrees
CosQuadrant(a) ==
    LET d == a \div 10
        f == a % 10
    IN  IF f = 0 THEN CosTable[d + 1]
        ELSE CosTable[d + 1] - ((CosTable[d + 1] - CosTable[d + 2]) * f) \div 10

\* 10000 * cosf(m_deg_to_rad(a)), for -360 <= a <= 360 degrees
Cos(a) ==
    LET b == IF a < 0 THEN -a ELSE a
        c == IF b > 1800 THEN 3600 - b ELSE b
    IN  IF c <= 900 THEN CosQuadrant(c) ELSE -CosQuadrant(1800 - c)

\* The largest whole degree e <= 44, from d on, with tan(e) <= y / x
\* (0 <= y <= x, x > 0): the first one whose successor has a tangent above
\* y / x.
WholeDegrees(y, x, d) ==
    CHOOSE e \in d..44 : /\ (e = 44 \/ TanTable[e + 2] * x > y * TrigOne)
                         /\ \A f \in d..(e - 1) : TanTable[f + 2] * x <= y * TrigOne

\* The angle between d and d + 1 degrees whose tangent is y / x, in tenths
AtanBetween(y, x, d) ==
    d * 10 + ((y * TrigOne - TanTable[d + 1] * x) * 10)
                \div ((TanTable[d + 2] - TanTable[d + 1]) * x)

\* atan(y / x) in tenths of a degree, 0 <= y <= x, x > 0
AtanOctant(y, x) == AtanBetween(y, x, WholeDegrees(y, x, 0))

\* atan(ay / ax) in tenths of a degree, ax >= 0, ay >= 0
AtanQuadrant(ay, ax) ==
    IF ax = 0 /\ ay = 0 THEN 0
    ELSE IF ax >= ay THEN AtanOctant(ay, ax) ELSE 900 - AtanOctant(ax, ay)

\* The angle of the quadrant of (x, y) that is `base` away from the x axis
InQuadrant(y, x, base) ==
    IF x >= 0 THEN (IF y >= 0 THEN base ELSE -base)
    ELSE (IF y >= 0 THEN 1800 - base ELSE base - 1800)

\* atan2f(y, x) * 180 / PI, in (-180, 180] degrees
Atan2(y, x) == InQuadrant(y, x, AtanQuadrant(Abs(y), Abs(x)))

(***************************************************************************)
(* r_render_sprites.  sprites[i].dist is in tenths; perpDist, the wall     *)
(* distances and eps are in ten-thousandths (eps = 0.0005 is 5).           *)
(***************************************************************************)
FOV == 600                  \* 60 degrees, in tenths
VP_LEFT == 512
EPS == 5                    \* 0.0005f
DepthOne == TrigOne         \* 1.0f as a perpendicular or wall distance
TRANSPARENT == <<255, 255, 0, 255>>     \* 0xFFFF00FF
OPAQUE_TEXEL == <<255, 90, 60, 30>>

\* int column_width = (SCREEN_WIDTH - 512) / RAY_COUNT
ColumnWidth == CDiv(SCREEN_WIDTH - 512, RAY_COUNT)

\* r_get_sprite(type)[texY * TEXTURE_SIZE + texX].  The sprite images are
\* in asset/assets.h; what is kept of them is that some texels hold the
\* transparent colour 0xFFFF00FF and the others do not: here, blocks of
\* 8 x 8 texels alternate.
SpriteTexel(type, texX, texY) ==
    IF (texX \div 8 + texY \div 8 + type) % 2 = 0 THEN TRANSPARENT ELSE OPAQUE_TEXEL

\* The sprite of cell k (k = my * MAPX + mx) as it is stored in sprites[].
SpriteOfCell(ms, pl, k) ==
    LET mx == k % MAPX
        my == k \div MAPX
        sx == mx * CELL + CELL \div 2
        sy == my * CELL + CELL \div 2
    IN  [x |-> sx, y |-> sy, dist |-> Distance(sx - pl.x, sy - pl.y, 1), type |-> ms[k + 1]]

\* "Collect sprite positions from map": the sprites of the cells lo..hi-1
\* in the order the loops visit them.  The cells are split in halves to
\* keep the evaluation shallow.
RECURSIVE CollectRange(_, _, _, _)
CollectRange(ms, pl, lo, hi) ==
    IF hi - lo = 1
    THEN (IF ms[lo + 1] > 0 THEN <<SpriteOfCell(ms, pl, lo)>> ELSE <<>>)
    ELSE CollectRange(ms, pl, lo, (lo + hi) \div 2)
         \o CollectRange(ms, pl, (lo + hi) \div 2, hi)

CollectSprites(ms, pl) == CollectRange(ms, pl, 0, MAPX * MAPY)

\* Sprite tmp = a[i]; a[i] = a[j]; a[j] = tmp;
Swap(a, i, j) == [a EXCEPT ![i] = a[j], ![j] = a[i]]

\* A mutant of the comparison of the sort: the other way round.
InOrderAscending(a, i, j) == ~(a[i].dist > a[j].dist)

\* The comparison of the sort: sprites[i] and sprites[j] stay where they
\* are unless sprites[i].dist < sprites[j].dist.
InOrder(a, i, j) == ~(a[i].dist < a[j].dist)

\* The body of the inner loop of the sort (indices from 1).
SortStep(a, i, j) == IF InOrder(a, i, j) THEN a ELSE Swap(a, i, j)

\* A mutant of the wrap of angle_diff: the lower test is left out.
WrapAngleUpperOnly(d) == IF d > 1800 THEN d - 3600 ELSE d

\* if (angle_diff < -180) angle_diff += 360; if (angle_diff > 180) angle_diff -= 360;
WrapAngle(d) ==
    LET e == IF d < -1800 THEN d + 3600 ELSE d
    IN  IF e > 1800 THEN e - 3600 ELSE e

\* angle_diff of a sprite
AngleDiff(s, pl) == WrapAngle(FixAng(Atan2(-(s.y - pl.y), s.x - pl.x)) - pl.angle)

\* perpDist of a sprite
PerpDist(s, pl) == CDiv(s.dist * Cos(AngleDiff(s, pl)), 10)

\* drawEndY and drawStartY before clipping
EndY(sprite_h) == CDiv(SCREEN_HEIGHT, 2) + CDiv(sprite_h, 2)
StartY(sprite_h) == EndY(sprite_h) - sprite_h

\* A mutant of the vertical clipping: the bottom edge is left where it is.
ClipYTopOnly(sprite_h, startY, endY) ==
    [texY_start |-> IF startY < 0 THEN CDiv((-startY) * TEXTURE_SIZE, sprite_h) ELSE 0,
     drawStartY |-> IF startY < 0 THEN 0 ELSE startY,
     drawEndY |-> endY]

\* "Vertical clipping and texture Y start calculation"
ClipY(sprite_h, startY, endY) ==
    [texY_start |-> IF startY < 0 THEN CDiv((-startY) * TEXTURE_SIZE, sprite_h) ELSE 0,
     drawStartY |-> IF startY < 0 THEN 0 ELSE startY,
     drawEndY |-> IF endY >= SCREEN_HEIGHT THEN SCREEN_HEIGHT - 1 ELSE endY]

\* screenX_center * 2 * FOV
Center2F(angle_diff) ==
    2 * FOV * SCREEN_WIDTH
    - 2 * (angle_diff + FOV \div 2) * RAY_COUNT * ColumnWidth
    - ColumnWidth * FOV

\* (int)floorf(screenX_center - sprite_w * 0.5f)
StartX(center2F, sprite_w) == (center2F - FOV * sprite_w) \div (2 * FOV)

\* (int)ceilf(screenX_center + sprite_w * 0.5f)
EndX(center2F, sprite_w) == -((-(center2F + FOV * sprite_w)) \div (2 * FOV))

\* "Horizontal clipping and texture X start calculation"
ClipX(sprite_w, startX, endX) ==
    [texX_start |-> IF startX < VP_LEFT
                    THEN CDiv((VP_LEFT - startX) * TEXTURE_SIZE, sprite_w) ELSE 0,
     drawStartX |-> IF startX < VP_LEFT THEN VP_LEFT ELSE startX,
     drawEndX |-> IF endX >= SCREEN_WIDTH THEN SCREEN_WIDTH - 1 ELSE endX]

\* The locals of a sprite that passed the safety checks.
Placed(s, angle_diff, perpDist, sprite_h, cy, cx) ==
    [skip |-> IF cx.drawEndX < VP_LEFT \/ cx.drawStartX >= SCREEN_WIDTH
              THEN "outside" ELSE "no",
     angle_diff |-> angle_diff, perpDist |-> perpDist,
     sprite_h |-> sprite_h, sprite_w |-> sprite_h,
     drawStartY |-> cy.drawStartY, drawEndY |-> cy.drawEndY, texY_start |-> cy.texY_start,
     drawStartX |-> cx.drawStartX, drawEndX |-> cx.drawEndX, texX_start |-> cx.texX_start,
     type |-> s.type, dist |-> s.dist]

\* A mutant of the size check: no sprite is too large.
SizedNoCap(s, angle_diff, perpDist, sprite_h) ==
    Placed(s, angle_diff, perpDist, sprite_h,
           ClipY(sprite_h, StartY(sprite_h), EndY(sprite_h)),
           ClipX(sprite_h, StartX(Center2F(angle_diff), sprite_h),
                           EndX(Center2F(angle_diff), sprite_h)))

\* The locals of a sprite from sprite_h on.
Sized(s, angle_diff, perpDist, sprite_h) ==
    IF sprite_h > SCREEN_HEIGHT * 2
    THEN [skip |-> "large", angle_diff |-> angle_diff, perpDist |-> perpDist,
          sprite_h |-> sprite_h]
    ELSE Placed(s, angle_diff, perpDist, sprite_h,
                ClipY(sprite_h, StartY(sprite_h), EndY(sprite_h)),
                ClipX(sprite_h, StartX(Center2F(angle_diff), sprite_h),
                                EndX(Center2F(angle_diff), sprite_h)))

\* The locals of a sprite from perpDist on.
Distanced(s, angle_diff, perpDist) ==
    IF perpDist < DepthOne
    THEN [skip |-> "near", angle_diff |-> angle_diff, perpDist |-> perpDist]
    ELSE Sized(s, angle_diff, perpDist,
               CDiv(MAP_CELL_SIZE * SCREEN_HEIGHT * DepthOne, perpDist))

\* The locals of one iteration of the sprite loop, up to the column loop;
\* `skip` tells which `continue` was taken, if any.
Project(s, pl) == Distanced(s, AngleDiff(s, pl), PerpDist(s, pl))

\* if (v < 0) v = 0; else if (v >= TEXTURE_SIZE) v = TEXTURE_SIZE - 1;
ClampTex(v) == IF v < 0 THEN 0 ELSE IF v >= TEXTURE_SIZE THEN TEXTURE_SIZE - 1 ELSE v

\* A mutant of the interpolation: the weight (1.0f - t) of the lower entry
\* is dropped.
WallDepthUnweighted(wd, x) ==
    LET parts == 2 * ColumnWidth
        r_f == 2 * SCREEN_WIDTH - (2 * x + 1)
        r0 == r_f \div parts
        t == r_f % parts
        r1 == r0 + 1
        lowClamped == r0 < 0
        c0 == IF lowClamped THEN 0 ELSE r0
        t1 == IF lowClamped THEN 0 ELSE t
        highClamped == r1 >= RAY_COUNT
        c1 == IF highClamped THEN RAY_COUNT - 1 ELSE r1
        t2 == IF highClamped THEN 0 ELSE t1
    IN  [r0 |-> c0, r1 |-> c1, t |-> t2, parts |-> parts,
         wall_d |-> (parts * wd[c0] + t2 * wd[c1]) \div parts]

\* The interpolated wall distance at screen column x: r0, r1, the factor t
\* (in quarters for a column width of 2) and wall_d.
WallDepth(wd, x) ==
    LET parts == 2 * ColumnWidth
        r_f == 2 * SCREEN_WIDTH - (2 * x + 1)       \* r_f * parts
        r0 == r_f \div parts
        t == r_f % parts
        r1 == r0 + 1
        lowClamped == r0 < 0
        c0 == IF lowClamped THEN 0 ELSE r0
        t1 == IF lowClamped THEN 0 ELSE t
        highClamped == r1 >= RAY_COUNT
        c1 == IF highClamped THEN RAY_COUNT - 1 ELSE r1
        t2 == IF highClamped THEN 0 ELSE t1
    IN  [r0 |-> c0, r1 |-> c1, t |-> t2, parts |-> parts,
         wall_d |-> ((parts - t2) * wd[c0] + t2 * wd[c1]) \div parts]

\* A mutant of the depth test: eps is added, not subtracted.
BehindWallLoose(perpDist, wall_d) == perpDist > wall_d + EPS

\* A mutant of the depth test: a sprite at wall_d - eps is skipped too.
BehindWallOrEqual(perpDist, wall_d) == perpDist >= wall_d - EPS

\* "Depth test - skip if sprite is behind wall"
BehindWall(perpDist, wall_d) == perpDist > wall_d - EPS

\* texX of screen column x and texY of screen row y, clamped.
SpriteTexX(P, x) ==
    ClampTex(P.texX_start + CDiv((x - P.drawStartX) * TEXTURE_SIZE, P.sprite_w))

SpriteTexY(P, y) ==
    ClampTex(P.texY_start + CDiv((y - P.drawStartY) * TEXTURE_SIZE, P.sprite_h))

\* The rows of column x whose texel is not the transparent colour.
OpaqueRows(P, x) ==
    {y \in P.drawStartY..P.drawEndY :
        SpriteTexel(P.type, SpriteTexX(P, x), SpriteTexY(P, y)) # TRANSPARENT}

\* One iteration of "Render sprite columns": the pixel indices the column
\* x stores to through r_drawpoint.
ColumnWrites(P, wd, x) ==
    IF BehindWall(P.perpDist, WallDepth(wd, x).wall_d) THEN {}
    ELSE {PixelIndex(x, y) : y \in {v \in OpaqueRows(P, x) : OnScreen(x, v)}}

(***************************************************************************)
(* SpecSprite: one call of r_render_sprites, for a pose of the player, a   *)
(* sprite layout and a wall-distance buffer.  The call is followed step by *)
(* step: collect, the sort one comparison at a time, the sprite loop one   *)
(* sprite at a time, with one column of the footprint followed through the *)
(* column loop.  What a column stores through r_drawpoint is recorded in   *)
(* spr.col.written; the sprites the loop has reached, in order, are in     *)
(* spr.visited.                                                            *)
(***************************************************************************)
MaxColumnSamples == 4
MaxBand == 6

\* A layout whose three sprites are met by the collect loop in the order
\* near, far, middle when seen from the cell (1, 1).
ThreeSprites ==
    << 0,0,0,0,0,0,0,0,
       0,0,1,0,0,0,2,0,
       0,0,0,0,0,0,0,0,
       0,0,0,3,0,0,0,0,
       0,0,0,0,0,0,0,0,
       0,0,0,0,0,0,0,0,
       0,0,0,0,0,0,0,0,
       0,0,0,0,0,0,0,0 >>

SpriteMaps == {ShippedSprites, ThreeSprites}

\* The middle of the cell (1, 1), facing west: the sprites of the cells to
\* the east on the same row are straight behind.
BackTurned == [x |-> 9600, y |-> 9600, angle |-> 1800]

SpritePoses ==
    {[x |-> p[1], y |-> p[2], angle |-> a] :
        p \in {<<20000, 19500>>, <<9600, 9600>>, <<30000, 40000>>},
        a \in {0, 900, 2250, 2950}}
    \cup {BackTurned}

Rays == 0..(RAY_COUNT - 1)

UniformWalls(d) == [r \in Rays |-> d]

\* Walls at 150 and 250 units on alternate rays.
AlternatingWalls == [r \in Rays |-> IF r % 2 = 0 THEN 1500000 ELSE 2500000]

\* The wall-distance buffers tried for a layout and a pose: walls nearer
\* than every sprite, farther than every sprite, alternating, and at a few
\* ten-thousandths around the perpendicular distance of a sprite in view.
WallProfiles(ms, pl) ==
    LET all == CollectSprites(ms, pl)
        inView == {i \in 1..Len(all) : Project(all[i], pl).skip = "no"}
    IN  {UniformWalls(200000), UniformWalls(10000000), AlternatingWalls}
        \cup {UniformWalls(PerpDist(all[i], pl) + d) : i \in inView, d \in (-1)..MaxBand}

NoLocals == [skip |-> "none"]
NoColumn == [x |-> -1]

\* The columns of the footprint that are followed.
ColumnSamples(P) ==
    {P.drawStartX + ((P.drawEndX - P.drawStartX) * k) \div MaxColumnSamples :
        k \in 0..MaxColumnSamples}

InitSprite ==
    /\ pixels = ClearScreenBuffer([fill |-> BACKGROUND, written |-> NoWrites])
    /\ last = NoOp
    /\ IdleLine /\ IdleShade /\ IdleRay /\ IdleLoop
    /\ map = ShippedMap
    /\ player \in SpritePoses
    /\ map_sprites \in SpriteMaps
    /\ wall_distances \in WallProfiles(map_sprites, player)
    /\ sprites = <<>>
    /\ spr = [pc |-> "collect", i |-> 0, j |-> 0, collected |-> <<>>, visited |-> <<>>,
              loc |-> NoLocals, col |-> NoColumn]

SpriteCollect ==
    /\ spr.pc = "collect"
    /\ sprites' = CollectSprites(map_sprites, player)
    /\ spr' = [spr EXCEPT !.pc = "sort", !.i = 1, !.j = 2, !.collected = sprites']
    /\ UNCHANGED <<map_sprites, wall_distances, player, idleInSprites>>

\* One iteration of the inner loop of the sort, and the step of the outer
\* loop when the inner loop ends with it.
SpriteSort ==
    /\ spr.pc = "sort"
    /\ spr.i <= Len(sprites) - 1
    /\ sprites' = SortStep(sprites, spr.i, spr.j)
    /\ spr' = IF spr.j + 1 <= Len(sprites)
              THEN [spr EXCEPT !.j = spr.j + 1]
              ELSE [spr EXCEPT !.i = spr.i + 1, !.j = spr.i + 2]
    /\ UNCHANGED <<map_sprites, wall_distances, player, idleInSprites>>

\* The end of the sort and the entry of the sprite loop.
SpriteSorted ==
    /\ spr.pc = "sort"
    /\ spr.i > Len(sprites) - 1
    /\ spr' = [spr EXCEPT !.pc = "loop", !.i = 1, !.j = 0]
    /\ UNCHANGED <<sprites, map_sprites, wall_distances, player, idleInSprites>>

\* An iteration of the sprite loop up to the column loop.
SpriteProject ==
    /\ spr.pc = "loop"
    /\ spr.i <= Len(sprites)
    /\ LET P == Project(sprites[spr.i], player)
       IN  spr' = [spr EXCEPT !.pc = IF P.skip = "no" THEN "columns" ELSE "loop",
                              !.i = IF P.skip = "no" THEN spr.i ELSE spr.i + 1,
                              !.visited = Append(spr.visited, sprites[spr.i]),
                              !.loc = P,
                              !.col = NoColumn]
    /\ UNCHANGED <<sprites, map_sprites, wall_distances, player, idleInSprites>>

\* The iteration of the column loop for one column of the footprint.
SpriteColumn ==
    /\ spr.pc = "columns"
    /\ \E x \in ColumnSamples(spr.loc) :
          spr' = [spr EXCEPT !.pc = "loop",
                             !.i = spr.i + 1,
                             !.col = [x |-> x,
                                      wall_d |-> WallDepth(wall_distances, x).wall_d,
                                      written |-> ColumnWrites(spr.loc, wall_distances, x)]]
    /\ UNCHANGED <<sprites, map_sprites, wall_distances, player, idleInSprites>>

SpriteDone ==
    /\ spr.pc = "loop"
    /\ spr.i > Len(sprites)
    /\ spr' = [spr EXCEPT !.pc = "done"]
    /\ UNCHANGED <<sprites, map_sprites, wall_distances, player, idleInSprites>>

NextSprite ==
    SpriteCollect \/ SpriteSort \/ SpriteSorted \/ SpriteProject \/ SpriteColumn \/ SpriteDone

SpecSprite == InitSprite /\ [][NextSprite]_vars

\* The state after an iteration of the column loop: the sprite is spr.loc,
\* the column spr.col.x.
ColumnDone == spr.pc = "loop" /\ spr.col.x >= 0

\* The pixels of column x of the footprint whose texel is not 0xFFFF00FF.
OpaquePixels(P, x) == {PixelIndex(x, y) : y \in OpaqueRows(P, x)}

\* C8: in a column of a sprite's footprint where the sprite's distance (the
\* perpendicular distance, which is what the depth test compares) is
\* strictly greater than the wall distance interpolated from the buffer,
\* no pixel of the sprite is written.
C8_FartherNotDrawn ==
    (ColumnDone /\ spr.loc.perpDist > spr.col.wall_d) => spr.col.written = {}

\* A sprite behind the wall in a column where it has texels to show.
C8_Witness ==
    /\ ColumnDone
    /\ spr.loc.perpDist > spr.col.wall_d
    /\ spr.col.wall_d = WallDepth(wall_distances, spr.col.x).wall_d
    /\ spr.col.x \in spr.loc.drawStartX..spr.loc.drawEndX
    /\ OpaqueRows(spr.loc, spr.col.x) # {}
    /\ spr.col.written = {}

\* C9, as stated: in a column of a sprite's clipped footprint where the
\* sprite's distance is strictly less than the interpolated wall distance,
\* every pixel of the column whose texel is not 0xFFFF00FF is written.
C9_NearerDrawn ==
    (ColumnDone /\ spr.loc.perpDist < spr.col.wall_d)
        => spr.col.written = OpaquePixels(spr.loc, spr.col.x)

\* C9, amended: in a column of a sprite's clipped footprint where the
\* sprite's distance is less than the interpolated wall distance by at
\* least eps (0.0005), every pixel of the column whose texel is not
\* 0xFFFF00FF is written, and nothing else is.
C9_NearerByEpsDrawn ==
    (ColumnDone /\ spr.loc.perpDist <= spr.col.wall_d - EPS)
        => spr.col.written = OpaquePixels(spr.loc, spr.col.x)

\* A sprite exactly eps in front of the wall, drawn in a column that has
\* both transparent and other texels.
C9_Witness ==
    /\ ColumnDone
    /\ spr.loc.perpDist = spr.col.wall_d - EPS
    /\ spr.col.written # {}
    /\ spr.col.written = OpaquePixels(spr.loc, spr.col.x)
    /\ Cardinality(spr.col.written) < spr.loc.drawEndY - spr.loc.drawStartY + 1

Occurrences(a, s) == Cardinality({k \in 1..Len(a) : a[k] = s})

Permutation(a, b) ==
    /\ Len(a) = Len(b)
    /\ \A k \in 1..Len(a) : Occurrences(a, a[k]) = Occurrences(b, a[k])

NonIncreasing(a) == \A k \in 1..(Len(a) - 1) : a[k].dist >= a[k + 1].dist

\* C10: once the sort is over, sprites[] is a permutation of the collected
\* sprites in non-increasing order of distance, and the sprite loop takes
\* them in that order, farthest first: what it has reached is a prefix of
\* sprites[], and all of it at the end.
C10_SortedFarToNear ==
    spr.pc \in {"loop", "columns", "done"} =>
        /\ Permutation(sprites, spr.collected)
        /\ NonIncreasing(sprites)
        /\ Len(spr.visited) <= Len(sprites)
        /\ spr.visited = SubSeq(sprites, 1, Len(spr.visited))
        /\ spr.pc = "done" => spr.visited = sprites

\* Three sprites collected in the order near, far, middle (as 10, 50, 30)
\* and taken by the sprite loop as far, middle, near.
C10_Witness ==
    /\ spr.pc = "done"
    /\ Len(spr.collected) = 3
    /\ spr.collected[1].dist < spr.collected[3].dist
    /\ spr.collected[3].dist < spr.collected[2].dist
    /\ spr.visited = <<spr.collected[2], spr.collected[3], spr.collected[1]>>

(***************************************************************************)
(* check_collision                                                         *)
(***************************************************************************)
WALKABLE == 8

\* map_sprites[mapY * MAPX + mapX]
SpriteAt(ms, mapX, mapY) == ms[mapY * MAPX + mapX + 1]

\* (int)floor(v / MAP_CELL_SIZE), of a coordinate in hundredths
CellOf(v) == v \div CELL

\* A mutant of check_collision: every sprite blocks, the lights too.
CheckCollisionAnySprite(m, ms, x, y) ==
    IF ~InGrid(CellOf(x), CellOf(y)) THEN TRUE
    ELSE IF WallAt(m, CellOf(x), CellOf(y)) > 0 THEN TRUE
    ELSE IF SpriteAt(ms, CellOf(x), CellOf(y)) > 0 THEN TRUE
    ELSE FALSE

\* check_collision(x, y)
CheckCollision(m, ms, x, y) ==
    IF CellOf(x) < 0 \/ CellOf(x) >= MAPX \/ CellOf(y) < 0 \/ CellOf(y) >= MAPY THEN TRUE
    ELSE IF WallAt(m, CellOf(x), CellOf(y)) > 0 THEN TRUE
    ELSE IF SpriteAt(ms, CellOf(x), CellOf(y)) > 0
            /\ SpriteAt(ms, CellOf(x), CellOf(y)) < WALKABLE THEN TRUE
    ELSE FALSE

(***************************************************************************)
(* SpecCollision: check_collision called on the shipped grids with points  *)
(* at the corners and in the middle of every cell, and of the cells just   *)
(* outside the grid.                                                       *)
(***************************************************************************)
MaxOutside == 1

ProbeCoords ==
    {c * CELL + o : c \in (-MaxOutside)..(MAPX - 1 + MaxOutside), o \in {0, 3217, CELL - 1}}

InitCollision ==
    /\ pixels = ClearScreenBuffer([fill |-> BACKGROUND, written |-> NoWrites])
    /\ last = NoOp
    /\ StartPose
    /\ IdleLine /\ IdleShade /\ IdleRay /\ IdleSprites
    /\ lookup = [fn |-> "none"]
    /\ frame = [pc |-> "probe"]

Collide ==
    /\ frame.pc = "probe"
    /\ \E x \in ProbeCoords, y \in ProbeCoords :
          frame' = [pc |-> "probed", x |-> x, y |-> y,
                    blocked |-> CheckCollision(map, map_sprites, x, y)]
    /\ UNCHANGED <<player, idleInInput>>

NextCollision == Collide

SpecCollision == InitCollision /\ [][NextCollision]_vars

\* The cell of the grid a probed point falls in, if any.
ProbedInside ==
    /\ 0 <= frame.x /\ frame.x < MAPX * CELL
    /\ 0 <= frame.y /\ frame.y < MAPY * CELL

ProbedCell == (frame.y \div CELL) * MAPX + frame.x \div CELL + 1

\* C11: check_collision(x, y) is true exactly when the cell of (x, y) is
\* outside the grid, or its wall code is not zero, or its sprite code is
\* not zero and below 8; and the call changes nothing of the program's
\* state.
C11_BlockedExactly ==
    /\ [](frame.pc = "probed" =>
            (frame.blocked <=>
                \/ ~ProbedInside
                \/ map[ProbedCell] # 0
                \/ (map_sprites[ProbedCell] # 0 /\ map_sprites[ProbedCell] < 8)))
    /\ [][<<map, map_sprites, player, pixels, wall_distances>>'
            = <<map, map_sprites, player, pixels, wall_distances>>]_vars

\* A point in a cell with no wall and a ceiling light (sprite 8): not blocked.
C11_Witness ==
    /\ frame.pc = "probed"
    /\ ProbedInside
    /\ map[ProbedCell] = 0
    /\ map_sprites[ProbedCell] = 8
    /\ ~frame.blocked

(***************************************************************************)
(* process_inputs.  player.dx and player.dy are in ten-thousandths, the    *)
(* rotation step 1.8 is 18 tenths of a degree, the move 2.5 is 250         *)
(* hundredths.                                                             *)
(***************************************************************************)
TURN == 18
STRIDE == 250

\* 10000 * sin of an angle in tenths of a degree, 0 <= a < 3600
Sin(a) == Cos(900 - a)

\* The initializer of `player`: dx = 0.423 and dy = 0.906 are written out.
InitialPlayer == [x |-> 20000, y |-> 19500, angle |-> 2950, dx |-> 4230, dy |-> 9060]

\* A mutant of the rotation: dy is left as it was.
TurnKeepDy(pl, delta) ==
    [pl EXCEPT !.angle = FixAng(pl.angle + delta),
               !.dx = Cos(FixAng(pl.angle + delta))]

\* player.angle += delta; m_fix_ang; player.dx = cos; player.dy = -sin
Turn(pl, delta) ==
    [pl EXCEPT !.angle = FixAng(pl.angle + delta),
               !.dx = Cos(FixAng(pl.angle + delta)),
               !.dy = -Sin(FixAng(pl.angle + delta))]

\* A mutant of the X step: the candidate is taken unchecked.
SlideXUnchecked(m, ms, pl, new_x) == [pl EXCEPT !.x = new_x]

\* if (!check_collision(new_x, player.y)) player.x = new_x;
SlideX(m, ms, pl, new_x) ==
    IF CheckCollision(m, ms, new_x, pl.y) THEN pl ELSE [pl EXCEPT !.x = new_x]

\* if (!check_collision(player.x, new_y)) player.y = new_y;
SlideY(m, ms, pl, new_y) ==
    IF CheckCollision(m, ms, pl.x, new_y) THEN pl ELSE [pl EXCEPT !.y = new_y]

\* The body of a movement key: sign is 1 for forward, -1 for backward.
Move(m, ms, pl, sign) ==
    SlideY(m, ms, SlideX(m, ms, pl, pl.x + sign * CDiv(pl.dx * STRIDE, TrigOne)),
           pl.y + sign * CDiv(pl.dy * STRIDE, TrigOne))

\* The four key tests of process_inputs, in their order.
AfterLeft(pl, keys) == IF "left" \in keys THEN Turn(pl, TURN) ELSE pl
AfterRight(pl, keys) == IF "right" \in keys THEN Turn(pl, -TURN) ELSE pl
AfterUp(m, ms, pl, keys) == IF "up" \in keys THEN Move(m, ms, pl, 1) ELSE pl
AfterDown(m, ms, pl, keys) == IF "down" \in keys THEN Move(m, ms, pl, -1) ELSE pl

\* player after process_inputs with the keys `keys` held down
ProcessKeys(m, ms, pl, keys) ==
    AfterDown(m, ms, AfterUp(m, ms, AfterRight(AfterLeft(pl, keys), keys), keys), keys)

(***************************************************************************)
(* SpecInput: process_inputs frame after frame, from the initial player,   *)
(* with every combination of the four keys and of the quit event.  Frames  *)
(* that only rotate are not counted while the player has not moved; from   *)
(* the first frame with a movement key on, frame.n counts the frames.      *)
(***************************************************************************)
MaxFrames == 1

Keys == {"left", "right", "up", "down"}

InitInput ==
    /\ pixels = ClearScreenBuffer([fill |-> BACKGROUND, written |-> NoWrites])
    /\ last = NoOp
    /\ IdleLine /\ IdleShade /\ IdleRay /\ IdleSprites
    /\ map = ShippedMap
    /\ player = InitialPlayer
    /\ lookup = [fn |-> "none"]
    /\ frame = [pc |-> "inputs", engine_on |-> TRUE, n |-> 0, keys |-> {}]

ProcessInputs ==
    /\ frame.pc = "inputs"
    /\ frame.engine_on
    /\ frame.n < MaxFrames
    /\ \E keys \in SUBSET Keys, quit \in BOOLEAN :
          /\ player' = ProcessKeys(map, map_sprites, player, keys)
          /\ frame' = [frame EXCEPT
                          !.engine_on = ~quit,
                          !.keys = keys,
                          !.n = IF frame.n > 0 \/ keys \cap {"up", "down"} # {}
                                THEN frame.n + 1 ELSE 0]
    /\ UNCHANGED idleInInput

NextInput == ProcessInputs

SpecInput == InitInput /\ [][NextInput]_vars

\* C16: after any frames with any rotation keys, 0 <= player.angle < 360.
C16_AngleInRange == frame.pc = "inputs" => (0 <= player.angle /\ player.angle < 3600)

\* The angle has wrapped below zero: from 1.6 degrees, turning right.
C16_Witness ==
    /\ frame.pc = "inputs"
    /\ "right" \in frame.keys /\ "left" \notin frame.keys
    /\ player.angle = 3600 + 16 - TURN

Rotated == frame'.keys \cap {"left", "right"} # {}

\* C17, as stated, for what it says of every state: the direction vector
\* equals (cos(angle), -sin(angle)) of the current angle, the initial
\* state included.
C17_DirectionExact ==
    frame.pc = "inputs" =>
        (player.dx = Cos(player.angle) /\ player.dy = -Sin(player.angle))

\* C17, amended: in every state the direction vector is within 0.0005 of
\* (cos(angle), -sin(angle)); a frame with a rotation key held re-derives
\* dx and dy from the angle it leaves, and a frame without one changes
\* neither the angle nor dx nor dy.
C17_DirectionFollowsAngle ==
    /\ [](frame.pc = "inputs" =>
            /\ Abs(player.dx - Cos(player.angle)) <= 5
            /\ Abs(player.dy + Sin(player.angle)) <= 5)
    /\ [][frame.pc = "inputs" =>
            /\ Rotated => (player.dx' = Cos(player.angle')
                           /\ player.dy' = -Sin(player.angle'))
            /\ ~Rotated => <<player.angle, player.dx, player.dy>>'
                            = <<player.angle, player.dx, player.dy>>]_vars

\* A quarter turn away from the start, the vector re-derived.
C17_Witness ==
    /\ frame.pc = "inputs"
    /\ "left" \in frame.keys
    /\ player.angle = FixAng(InitialPlayer.angle + 50 * TURN)
    /\ player.dx = Cos(player.angle)
    /\ player.dy = -Sin(player.angle)
    /\ player.dx # InitialPlayer.dx

(***************************************************************************)
(* r_get_wall_texture and r_get_sprite.  A texture is named by the array   *)
(* the function returns; "NULL" is the name of no array.                   *)
(***************************************************************************)
WallTextures == {"greystone", "mossy", "colorstone"}

SpriteTextures ==
    {"hangman", "barrel", "armor_suit", "bed", "plant", "sink", "dead_plant", "light"}

\* A mutant of r_get_wall_texture: no default case.
GetWallTextureNoDefault(wall_type) ==
    CASE wall_type = 1 -> "greystone"
      [] wall_type = 2 -> "mossy"
      [] wall_type = 3 -> "colorstone"
      [] OTHER -> "NULL"

\* r_get_wall_texture(wall_type)
GetWallTexture(wall_type) ==
    CASE wall_type = 1 -> "greystone"
      [] wall_type = 2 -> "mossy"
      [] wall_type = 3 -> "colorstone"
      [] OTHER -> "greystone"

\* r_get_sprite(sprite_type)
GetSprite(sprite_type) ==
    CASE sprite_type = 1 -> "hangman"
      [] sprite_type = 2 -> "barrel"
      [] sprite_type = 3 -> "armor_suit"
      [] sprite_type = 4 -> "bed"
      [] sprite_type = 5 -> "plant"
      [] sprite_type = 6 -> "sink"
      [] sprite_type = 7 -> "dead_plant"
      [] sprite_type = 8 -> "light"
      [] OTHER -> "light"

(***************************************************************************)
(* SpecLookup: the two lookups called with every code of a range around    *)
(* the palettes.                                                           *)
(***************************************************************************)
MaxCode == 40

Codes == (-MaxCode)..MaxCode

InitLookup ==
    /\ pixels = ClearScreenBuffer([fill |-> BACKGROUND, written |-> NoWrites])
    /\ last = NoOp
    /\ StartPose
    /\ IdleLine /\ IdleShade /\ IdleRay /\ IdleSprites
    /\ frame = [pc |-> "idle"]
    /\ lookup = [fn |-> "none"]

LookupWall ==
    /\ lookup.fn = "none"
    /\ \E code \in Codes :
          lookup' = [fn |-> "r_get_wall_texture", code |-> code,
                     texture |-> GetWallTexture(code)]
    /\ UNCHANGED idleInLookup

LookupSprite ==
    /\ lookup.fn = "none"
    /\ \E code \in Codes :
          lookup' = [fn |-> "r_get_sprite", code |-> code, texture |-> GetSprite(code)]
    /\ UNCHANGED idleInLookup

NextLookup == LookupWall \/ LookupSprite

SpecLookup == InitLookup /\ [][NextLookup]_vars

\* C19: both lookups return one of their textures for every code, never
\* none: r_get_wall_texture returns the stone texture for a code outside
\* 1..3 (0 included), r_get_sprite the light for a code outside 1..8.
C19_LookupFallsBack ==
    /\ lookup.fn = "r_get_wall_texture" =>
          /\ lookup.texture \in WallTextures
          /\ lookup.code \notin 1..3 => lookup.texture = "greystone"
    /\ lookup.fn = "r_get_sprite" =>
          /\ lookup.texture \in SpriteTextures
          /\ lookup.code \notin 1..8 => lookup.texture = "light"

\* The wall code of a ray that hit nothing.
C19_Witness ==
    /\ lookup.fn = "r_get_wall_texture"
    /\ lookup.code = 0
    /\ lookup.texture = "greystone"

(***************************************************************************)
(* r_raycast: the angle of a ray, the fisheye correction and the strip of  *)
(* a ray.  A ray angle is in 64ths of a tenth of a degree, in which the    *)
(* angle step 60/256 is the integer 150.  correctedDistance is in          *)
(* ten-thousandths, as wall_distances[] is.  What a ray paints is kept as  *)
(* the screen columns and the row ranges of its three loops; the colours   *)
(* come from textures that are not part of the source.                     *)
(***************************************************************************)
FINE == 64

\* rangle - player.angle of ray r: -FOV / 2 + r * angle_step
RayOffset(r) == r * ((FOV * FINE) \div RAY_COUNT) - (FOV \div 2) * FINE

\* rangle of ray r
RayAngle(pl, r) == pl.angle * FINE + RayOffset(r)

\* 10000 * cos of an angle between 0 and 90 degrees
CosFineQuadrant(a) ==
    IF a % (10 * FINE) = 0 THEN CosTable[a \div (10 * FINE) + 1]
    ELSE CosTable[a \div (10 * FINE) + 1]
         - ((CosTable[a \div (10 * FINE) + 1] - CosTable[a \div (10 * FINE) + 2])
            * (a % (10 * FINE))) \div (10 * FINE)

\* 10000 * cos of an angle between 0 and 360 degrees
CosFineTurn(b) ==
    IF b <= 900 * FINE THEN CosFineQuadrant(b)
    ELSE IF b <= 1800 * FINE THEN -CosFineQuadrant(1800 * FINE - b)
    ELSE IF b <= 2700 * FINE THEN -CosFineQuadrant(b - 1800 * FINE)
    ELSE CosFineQuadrant(3600 * FINE - b)

\* 10000 * cos(m_deg_to_rad(a)), any angle
CosFine(a) == CosFineTurn(a % (3600 * FINE))

\* 10000 * sin(m_deg_to_rad(a)), any angle
SinFine(a) == CosFine(900 * FINE - a)

\* rayDirX and rayDirY of ray r, in ten-thousandths
RayDirX(pl, r) == CosFine(RayAngle(pl, r))
RayDirY(pl, r) == -SinFine(RayAngle(pl, r))

\* What correctedDistance holds for the no-hit distance: 1000000 times a
\* cosine of at most 30 degrees is above 866025 units, which the integers
\* here cannot hold in ten-thousandths.  50000 units stand for it: above
\* 32768 units every wall is less than a pixel high, and no sprite of the
\* grid is farther than 725 units.
DEPTH_FAR == 500000000

\* A mutant of the fisheye correction: the distance is left as it is.
CorrectedRaw(distance, offset) ==
    IF distance = NO_HIT THEN DEPTH_FAR ELSE distance * (DepthOne \div 10)

\* correctedDistance = distance * cos(m_deg_to_rad(rangle - player.angle)),
\* offset being rangle - player.angle
Corrected(distance, offset) ==
    IF distance = NO_HIT THEN DEPTH_FAR ELSE (distance * CosFine(offset)) \div 10

\* MAP_CELL_SIZE * SCREEN_HEIGHT, the numerator of wallHeight, as a distance
SliceOne == MAP_CELL_SIZE * SCREEN_HEIGHT * DepthOne

\* The unit of textureStart and textureStep: they are held as numerators
\* over TexDen, in which textureStep = TEXTURE_SIZE / wallHeight is
\* correctedDistance itself.
TexDen == SliceOne \div TEXTURE_SIZE

\* A mutant of the wall bounds: the texture offset of a tall wall is not
\* halved.
WallBoundsNoHalf(correctedDistance) ==
    IF correctedDistance < SliceOne \div SCREEN_HEIGHT
    THEN [wallTop |-> 0, wallBottom |-> SCREEN_HEIGHT,
          textureStart |-> SliceOne - SCREEN_HEIGHT * correctedDistance,
          textureStep |-> correctedDistance]
    ELSE [wallTop |-> SCREEN_HEIGHT \div 2 + (-SliceOne) \div (2 * correctedDistance),
          wallBottom |-> SCREEN_HEIGHT \div 2 + (-SliceOne) \div (2 * correctedDistance)
                            + SliceOne \div correctedDistance,
          textureStart |-> 0,
          textureStep |-> correctedDistance]

\* wallTop, wallBottom, textureStart and textureStep, wallHeight being
\* (MAP_CELL_SIZE * SCREEN_HEIGHT) / correctedDistance: wallHeight >
\* SCREEN_HEIGHT is correctedDistance below MAP_CELL_SIZE;
\* (int)((SCREEN_HEIGHT - wallHeight) / 2) is SCREEN_HEIGHT / 2 less
\* wallHeight / 2 rounded up; textureOffset * TEXTURE_SIZE / wallHeight is
\* (wallHeight - SCREEN_HEIGHT) / 2 * TEXTURE_SIZE / wallHeight, which over
\* TexDen is (SliceOne - SCREEN_HEIGHT * correctedDistance) / 2.
WallBounds(correctedDistance) ==
    IF correctedDistance < SliceOne \div SCREEN_HEIGHT
    THEN [wallTop |-> 0, wallBottom |-> SCREEN_HEIGHT,
          textureStart |-> (SliceOne - SCREEN_HEIGHT * correctedDistance) \div 2,
          textureStep |-> correctedDistance]
    ELSE [wallTop |-> SCREEN_HEIGHT \div 2 + (-SliceOne) \div (2 * correctedDistance),
          wallBottom |-> SCREEN_HEIGHT \div 2 + (-SliceOne) \div (2 * correctedDistance)
                            + SliceOne \div correctedDistance,
          textureStart |-> 0,
          textureStep |-> correctedDistance]

\* A mutant of the place of a strip: ray 0 at the left edge of the viewport.
StripXsLeftToRight(r) == {VP_LEFT + r * ColumnWidth + i : i \in 0..(ColumnWidth - 1)}

\* The x of the r_drawpoint calls of ray r: SCREEN_WIDTH - r * column_width - i
StripXs(r) == {SCREEN_WIDTH - r * ColumnWidth - i : i \in 0..(ColumnWidth - 1)}

\* The rows of the floor, ceiling and wall loops.
FloorRows(b) == b.wallBottom..(SCREEN_HEIGHT - 1)
CeilingRows(b) == 0..(b.wallTop - 1)
WallRows(b) == b.wallTop..(b.wallBottom - 1)

\* What ray r paints: its r_drawpoint calls are (x, y) for x in xs and y in
\* one of the three row sets; `nan` holds the floor rows whose distance is a
\* division by zero, where the texture coordinates are the (int) of a NaN.
Strip(r, b) ==
    [xs |-> StripXs(r),
     wallTop |-> b.wallTop, wallBottom |-> b.wallBottom,
     textureStart |-> b.textureStart, textureStep |-> b.textureStep,
     floor |-> FloorRows(b), ceiling |-> CeilingRows(b), wall |-> WallRows(b),
     nan |-> {y \in FloorRows(b) : 2 * y = SCREEN_HEIGHT}]

\* The fisheye correction, the store into wall_distances[] and the three
\* strips of the ray.
PaintColumn ==
    /\ ray.pc = "selected"
    /\ ray' = [pc |-> "painted", r |-> ray.r,
               rayDirX |-> ray.rayDirX, rayDirY |-> ray.rayDirY,
               H |-> ray.H, V |-> ray.V, hit |-> ray.hit,
               correctedDistance |-> Corrected(ray.hit.distance, RayOffset(ray.r)),
               col |-> Strip(ray.r, WallBounds(Corrected(ray.hit.distance, RayOffset(ray.r))))]
    /\ wall_distances' = [k \in DOMAIN wall_distances \cup {ray.r} |->
                            IF k = ray.r THEN ray'.correctedDistance
                            ELSE wall_distances[k]]
    /\ UNCHANGED <<pixels, map, player, last, line, shade, map_sprites, sprites, spr,
                   frame, lookup>>

NextRay == CastHorizontal \/ CastVertical \/ SelectHit \/ PaintColumn

SpecRay == InitRay /\ [][NextRay]_vars

\* A test that found a wall, and one that found none.
Found(t) == t.wallType > 0
NoHit == ~Found(ray.H) /\ ~Found(ray.V)

\* The pixels a strip stores: those of its r_drawpoint calls that are on
\* the screen.
StripPixels(col) ==
    {p \in col.xs \X (col.ceiling \cup col.wall \cup col.floor) : OnScreen(p[1], p[2])}

\* C18: a ray neither test of which found a wall has the raw distance
\* 1000000, which is above the distance of every wall a test finds; the
\* ray goes on to its column all the same, which paints every row of the
\* strip.
C18_NoHitIsFarthest ==
    /\ ray.pc \in {"horizontal", "vertical", "selected", "painted"} =>
          (Found(ray.H) => ray.H.distance < NO_HIT)
    /\ ray.pc \in {"vertical", "selected", "painted"} =>
          (Found(ray.V) => ray.V.distance < NO_HIT)
    /\ (ray.pc = "selected" /\ NoHit) =>
          /\ ray.hit.distance = NO_HIT
          /\ ray.hit.distance = 10 * 1000000
          /\ ENABLED PaintColumn
    /\ (ray.pc = "painted" /\ NoHit) =>
          /\ ray.col.ceiling \cup ray.col.wall \cup ray.col.floor = 0..(SCREEN_HEIGHT - 1)
          /\ StripPixels(ray.col) # {}
          /\ ray.r \in DOMAIN wall_distances

\* A ray that left the open grid, painted as a column with no wall rows.
C18_Witness ==
    /\ ray.pc = "painted"
    /\ NoHit
    /\ ray.H.steps > 0 /\ ray.V.steps > 0
    /\ ray.hit.distance = NO_HIT
    /\ ray.col.wall = {}
    /\ ray.col.ceiling # {} /\ ray.col.floor # {}

(***************************************************************************)
(* rungame: the main loop, a frame after another from the initial player   *)
(* on the shipped map.  frame.pc is the call of the loop body that is      *)
(* next; frame.log lists the framebuffer writers that have returned in     *)
(* this frame and frame.shown what the log was at the last presentation.   *)
(* r_raycast is followed ray by ray and then through the steps of          *)
(* r_render_sprites; what the writers put into the framebuffer is kept as  *)
(* the strips of the rays (frame.strips) and the columns of the sprites    *)
(* (spr.col), `pixels` itself being left alone.                            *)
(***************************************************************************)
MaxLoops == 2

\* The keyboard states a frame is run with.
FrameKeys == {{}, {"left"}, {"right", "up"}}

\* The loop body in the order of its calls.
Calls == <<"inputs", "clear", "level", "player", "rays", "sprites", "hud", "present">>

\* A mutant of the loop body: the HUD is drawn before the ray pass.
CallsHudFirst == <<"inputs", "clear", "level", "player", "hud", "rays", "sprites", "present">>

\* The loop body: statement after statement, the last one followed by the
\* test of engine_on and the first.
Body == Calls

IndexOf(seq, e) == CHOOSE i \in 1..Len(seq) : seq[i] = e

After(pc) == Body[(IndexOf(Body, pc) % Len(Body)) + 1]

\* A mutant of the ray loop: it stops one ray short.
RaysLeftShort(r) == r < RAY_COUNT - 1

\* r < RAY_COUNT
RaysLeft(r) == r < RAY_COUNT

\* rangle at the entry of r_raycast
FirstAngle(pl) == pl.angle * FINE - (FOV \div 2) * FINE

\* angle_step
AngleStep == (FOV * FINE) \div RAY_COUNT

\* The two intersection tests of a ray and the choice between them.
Cast(m, pl, rayDirX, rayDirY) ==
    CloserHit(HorizontalTest(m, pl, rayDirX, rayDirY), VerticalTest(m, pl, rayDirX, rayDirY))

\* What an iteration of the ray loop leaves behind.
Painted(r, rangle, offset, hit) ==
    [pc |-> "painted", r |-> r, rangle |-> rangle, hit |-> hit,
     correctedDistance |-> Corrected(hit.distance, offset),
     col |-> Strip(r, WallBounds(Corrected(hit.distance, offset)))]

InitFrame ==
    /\ pixels = ClearScreenBuffer([fill |-> BACKGROUND, written |-> NoWrites])
    /\ last = NoOp
    /\ IdleLine /\ IdleShade /\ IdleRay /\ IdleSprites
    /\ map = ShippedMap
    /\ player = InitialPlayer
    /\ lookup = [fn |-> "none"]
    /\ frame = [pc |-> "inputs", engine_on |-> TRUE, n |-> 0, keys |-> {},
                log |-> <<>>, shown |-> <<>>, r |-> 0, rangle |-> 0,
                raw |-> <<>>, strips |-> <<>>]

\* A mutant of the loop test: `while (true)`.
ContinuesAlways(f) == TRUE

\* while (engine_on)
Continues(f) == f.engine_on

\* process_inputs, at the top of a frame the loop test let in.
FrameInputs ==
    /\ frame.pc = "inputs"
    /\ Continues(frame)
    /\ frame.n < MaxLoops
    /\ \E keys \in FrameKeys, quit \in BOOLEAN :
          /\ player' = ProcessKeys(map, map_sprites, player, keys)
          /\ frame' = [frame EXCEPT !.pc = After("inputs"), !.engine_on = ~quit,
                                    !.keys = keys, !.log = <<>>]
    /\ UNCHANGED <<ray, spriteVars, idleInFrame>>

\* r_clearscreenbuffer
FrameClear ==
    /\ frame.pc = "clear"
    /\ frame' = [frame EXCEPT !.pc = After("clear"), !.log = Append(frame.log, "clear")]
    /\ UNCHANGED <<player, ray, spriteVars, idleInFrame>>

\* r_drawlevel
FrameLevel ==
    /\ frame.pc = "level"
    /\ frame' = [frame EXCEPT !.pc = After("level"), !.log = Append(frame.log, "level")]
    /\ UNCHANGED <<player, ray, spriteVars, idleInFrame>>

\* r_drawplayer
FramePlayer ==
    /\ frame.pc = "player"
    /\ frame' = [frame EXCEPT !.pc = After("player"), !.log = Append(frame.log, "player")]
    /\ UNCHANGED <<player, ray, spriteVars, idleInFrame>>

\* The entry of r_raycast: the locals, wall_distances[] among them with
\* no entry written yet.
FrameRaycast ==
    /\ frame.pc = "rays"
    /\ ray = NoRay
    /\ ray' = [pc |-> "entered"]
    /\ wall_distances' = NoDistances
    /\ frame' = [frame EXCEPT !.r = 0, !.rangle = FirstAngle(player),
                              !.raw = <<>>, !.strips = <<>>]
    /\ UNCHANGED <<player, sprites, map_sprites, spr, idleInFrame>>

\* An iteration of the ray loop.
FrameRay ==
    /\ frame.pc = "rays"
    /\ ray.pc \in {"entered", "painted"}
    /\ RaysLeft(frame.r)
    /\ \E hit \in {Cast(map, player, CosFine(frame.rangle), -SinFine(frame.rangle))} :
       \E painted \in {Painted(frame.r, frame.rangle,
                               frame.rangle - player.angle * FINE, hit)} :
          /\ ray' = painted
          /\ wall_distances' = [k \in DOMAIN wall_distances \cup {frame.r} |->
                                  IF k = frame.r THEN painted.correctedDistance
                                  ELSE wall_distances[k]]
          /\ frame' = [frame EXCEPT !.r = frame.r + 1,
                                    !.rangle = frame.rangle + AngleStep,
                                    !.raw = Append(frame.raw, hit.distance),
                                    !.strips = Append(frame.strips, painted.col)]
    /\ UNCHANGED <<player, sprites, map_sprites, spr, idleInFrame>>

\* The end of the ray loop and the call of r_render_sprites.
FrameSprites ==
    /\ frame.pc = "rays"
    /\ ray.pc \in {"entered", "painted"}
    /\ ~RaysLeft(frame.r)
    /\ ray' = NoRay
    /\ sprites' = <<>>
    /\ spr' = [pc |-> "collect", i |-> 0, j |-> 0, collected |-> <<>>, visited |-> <<>>,
               loc |-> NoLocals, col |-> NoColumn]
    /\ frame' = [frame EXCEPT !.pc = After("rays"), !.log = Append(frame.log, "rays")]
    /\ UNCHANGED <<player, map_sprites, wall_distances, idleInFrame>>

\* The return of r_render_sprites and of r_raycast, with which
\* wall_distances[] ceases to exist.
FrameSpritesDone ==
    /\ frame.pc = "sprites"
    /\ spr.pc = "done"
    /\ spr' = NoSprite
    /\ wall_distances' = NoDistances
    /\ frame' = [frame EXCEPT !.pc = After("sprites"), !.log = Append(frame.log, "sprites")]
    /\ UNCHANGED <<player, ray, sprites, map_sprites, idleInFrame>>

\* r_draw_hud
FrameHud ==
    /\ frame.pc = "hud"
    /\ frame' = [frame EXCEPT !.pc = After("hud"), !.log = Append(frame.log, "hud")]
    /\ UNCHANGED <<player, ray, spriteVars, idleInFrame>>

\* SDL_UpdateTexture, SDL_RenderCopy, SDL_RenderPresent
FramePresent ==
    /\ frame.pc = "present"
    /\ frame' = [frame EXCEPT !.pc = After("present"), !.shown = frame.log,
                              !.n = frame.n + 1]
    /\ UNCHANGED <<player, ray, spriteVars, idleInFrame>>

\* The loop test failing, and what follows the loop.
FrameExit ==
    /\ frame.pc = "inputs"
    /\ ~Continues(frame)
    /\ frame' = [frame EXCEPT !.pc = "exited"]
    /\ UNCHANGED <<player, ray, spriteVars, idleInFrame>>

\* The steps of r_render_sprites, taken while the loop is in that call.
FrameSpriteCollect == frame.pc = "sprites" /\ SpriteCollect
FrameSpriteSort == frame.pc = "sprites" /\ SpriteSort
FrameSpriteSorted == frame.pc = "sprites" /\ SpriteSorted
FrameSpriteProject == frame.pc = "sprites" /\ SpriteProject
FrameSpriteColumn == frame.pc = "sprites" /\ SpriteColumn
FrameSpriteDone == frame.pc = "sprites" /\ SpriteDone

NextFrame ==
    \/ FrameInputs
    \/ FrameClear
    \/ FrameLevel
    \/ FramePlayer
    \/ FrameRaycast
    \/ FrameRay
    \/ FrameSprites
    \/ FrameSpriteCollect
    \/ FrameSpriteSort
    \/ FrameSpriteSorted
    \/ FrameSpriteProject
    \/ FrameSpriteColumn
    \/ FrameSpriteDone
    \/ FrameSpritesDone
    \/ FrameHud
    \/ FramePresent
    \/ FrameExit

SpecFrame == InitFrame /\ [][NextFrame]_vars

(***************************************************************************)
(* SpecLoop: the loop of rungame as its test sees it, each call of the     *)
(* body one step, r_raycast among them: it reads the player, writes the    *)
(* framebuffer and returns, its ray loop and its sprite pass being bounded *)
(* loops (SpecFrame follows them).  The loop is one thread of              *)
(* straight-line code, so a step that can be taken is taken.               *)
(***************************************************************************)
\* r_raycast, from its call to its return
LoopRaycast ==
    /\ frame.pc = "rays"
    /\ frame' = [frame EXCEPT !.pc = After(After("rays")),
                              !.log = frame.log \o <<"rays", "sprites">>]
    /\ UNCHANGED <<player, ray, spriteVars, idleInFrame>>

NextLoop ==
    \/ FrameInputs
    \/ FrameClear
    \/ FrameLevel
    \/ FramePlayer
    \/ LoopRaycast
    \/ FrameHud
    \/ FramePresent
    \/ FrameExit

SpecLoop == InitFrame /\ [][NextLoop]_vars /\ WF_vars(NextLoop)

\* The raw distance of ray r of the pass under way, in ten-thousandths.
RawDepth(r) == frame.raw[r + 1] * (DepthOne \div 10)

\* The ray of the pass under way that is cast along the facing direction.
Facing(r) == RayAngle(player, r) = player.angle * FINE

\* C12: wall_distances[r] is the raw distance of ray r times the cosine of
\* the ray's angle less the player's, and for the ray along the facing
\* direction it is the raw distance itself.
C12_FisheyeStored ==
    \A r \in DOMAIN wall_distances :
        /\ wall_distances[r] =
              (frame.raw[r + 1] * CosFine(RayAngle(player, r) - player.angle * FINE)) \div 10
        /\ Facing(r) => wall_distances[r] = RawDepth(r)

\* A pass that has stored the ray along the facing direction unshortened and
\* a ray at the edge of the view shortened.
C12_Witness ==
    /\ frame.pc = "rays"
    /\ \E r \in DOMAIN wall_distances : Facing(r) /\ wall_distances[r] = RawDepth(r)
    /\ 0 \in DOMAIN wall_distances
    /\ wall_distances[0] < RawDepth(0)
    /\ frame.raw[1] > 0

\* The strips the ray pass under way has painted so far.
Strips == {frame.strips[k] : k \in 1..Len(frame.strips)}

\* The rows of a strip: ceiling, wall and floor hold every row of the screen
\* once.
RowsOnce(c) ==
    /\ c.ceiling \cup c.wall \cup c.floor = 0..(SCREEN_HEIGHT - 1)
    /\ c.ceiling \cap c.wall = {}
    /\ c.ceiling \cap c.floor = {}
    /\ c.wall \cap c.floor = {}

\* The last strip shares no column with an earlier one.
LastStripApart ==
    \A k \in 1..(Len(frame.strips) - 1) :
        frame.strips[k].xs \cap frame.strips[Len(frame.strips)].xs = {}

\* The ray pass has cast all its rays.
PassDone == Len(frame.strips) = RAY_COUNT

\* C13: every ray paints a strip column_width wide whose ceiling, wall and
\* floor rows hold every row once; no strip shares a column with another or
\* has a column off the screen, and the strips of a pass hold every column
\* of the viewport, x = 512 to SCREEN_WIDTH - 1.
C13_ViewportCovered ==
    /\ \A c \in Strips :
          /\ Cardinality(c.xs) = ColumnWidth
          /\ RowsOnce(c)
          /\ c.xs \subseteq 0..(SCREEN_WIDTH - 1)
    /\ LastStripApart
    /\ PassDone => UNION {c.xs : c \in Strips} = VP_LEFT..(SCREEN_WIDTH - 1)

\* What holds of the strips: they are one column to the right of the
\* viewport, from x = 513 to x = SCREEN_WIDTH, the last of which is off the
\* screen.
C13_ShiftedByOne ==
    /\ \A c \in Strips :
          /\ Cardinality(c.xs) = ColumnWidth
          /\ RowsOnce(c)
          /\ c.xs \subseteq (VP_LEFT + 1)..SCREEN_WIDTH
    /\ LastStripApart
    /\ PassDone => UNION {c.xs : c \in Strips} = (VP_LEFT + 1)..SCREEN_WIDTH

\* The framebuffer writers of a frame.
Writers == <<"clear", "level", "player", "rays", "sprites", "hud">>

IsPrefix(a, b) == Len(a) <= Len(b) /\ \A k \in 1..Len(a) : a[k] = b[k]

\* C14: the writers of a frame return in the order clear, map, player
\* marker, ray columns, sprites, HUD; the rays are cast when the first three
\* have returned and the sprites are composed when the ray loop has ended;
\* a frame is presented when all six have returned, the HUD last.
C14_WritersInOrder ==
    /\ IsPrefix(frame.log, Writers)
    /\ ray # NoRay => frame.log = <<"clear", "level", "player">>
    /\ spr # NoSprite => frame.log = <<"clear", "level", "player", "rays">>
    /\ frame.pc = "present" => frame.log = Writers
    /\ frame.n > 0 => frame.shown = Writers
    /\ frame.n = 0 => frame.shown = <<>>

\* A second frame about to be presented after the first was.
C14_Witness ==
    /\ frame.pc = "present"
    /\ frame.n = 1
    /\ frame.shown = Writers
    /\ frame.log[Len(frame.log)] = "hud"

\* The corrected distance of ray r cast from where the player is now.
DepthFromHere(r) ==
    Corrected(Cast(map, player, RayDirX(player, r), RayDirY(player, r)).distance,
              RayOffset(r))

\* r_render_sprites is under way.
Composing == spr # NoSprite

\* r_render_sprites has been entered and has not taken a step.
Entered == spr.pc = "collect"

\* C15: when the sprite pass is entered wall_distances[] holds an entry for
\* each of the RAY_COUNT rays, each the corrected distance of that ray cast
\* from the player's present place and angle, and no step of the sprite
\* pass changes an entry or the player.
C15_BufferBeforeSprites ==
    /\ [](Composing => DOMAIN wall_distances = 0..(RAY_COUNT - 1))
    /\ [](Entered => \A r \in 0..(RAY_COUNT - 1) : wall_distances[r] = DepthFromHere(r))
    /\ [][Composing /\ Composing' =>
            wall_distances' = wall_distances /\ player' = player]_vars

\* The sprite pass has tested a column against the buffer of a frame in
\* which the player turned.
C15_Witness ==
    /\ frame.pc = "sprites"
    /\ frame.keys = {"left"}
    /\ spr.col # NoColumn
    /\ spr.col.wall_d > 0
    /\ DOMAIN wall_distances = 0..(RAY_COUNT - 1)

\* The ray the loop has just cast has the angle of its index.
AngleOfIndex ==
    ray.pc = "painted" =>
        /\ ray.rangle = player.angle * FINE - (FOV \div 2) * FINE
                            + ray.r * ((FOV * FINE) \div RAY_COUNT)
        /\ frame.strips[ray.r + 1] = ray.col

\* Strip a is wholly to the left of strip b.
LeftOf(a, b) == \A xa \in a.xs, xb \in b.xs : xa < xb

SlopeDivisors(rayDirX, rayDirY) ==
    (IF rayDirY # 0 THEN {rayDirY} ELSE {}) \cup (IF rayDirX # 0 THEN {rayDirX} ELSE {})

\* (y - SCREEN_HEIGHT / 2.0f) of the floor row y, doubled
FloorDivisor(y) == 2 * y - SCREEN_HEIGHT

\* (mirrorY - SCREEN_HEIGHT / 2.0f) of the ceiling row y, doubled
CeilingDivisor(y) == 2 * (SCREEN_HEIGHT - 1 - y) - SCREEN_HEIGHT

\* The divisors of the floor and ceiling distances of a strip.
RowDivisors(col) ==
    {FloorDivisor(y) : y \in col.floor} \cup {CeilingDivisor(y) : y \in col.ceiling}

\* The chosen intersection is one with a wall.
Struck(hit) == hit.currentWallType > 0

\* Whether distance, and with it correctedDistance, the divisor of the wall
\* height, is other than zero.  A hit distance is the length of the step
\* from the player to the hit point, here in tenths, so that it is read off
\* the step itself, which is in hundredths.
DistanceNonZero(pl, hit, offset) ==
    /\ Struck(hit) => (hit.hitX # pl.x \/ hit.hitY # pl.y)
    /\ ~Struck(hit) => hit.distance # 0
    /\ CosFine(offset) # 0

C21_ExceptNoHit ==
    (ray.pc = "painted" /\ Struck(ray.hit)) =>
        /\ 0 \notin SlopeDivisors(ray.rayDirX, ray.rayDirY)
        /\ DistanceNonZero(player, ray.hit, RayOffset(ray.r))
        /\ 0 \notin RowDivisors(ray.col)

\* And of every ray of the frames of the main loop on the shipped map.
C21_ShippedMap ==
    (frame.pc = "rays" /\ ray.pc = "painted") =>
        /\ Struck(ray.hit)
        /\ 0 \notin SlopeDivisors(CosFine(ray.rangle), -SinFine(ray.rangle))
        /\ DistanceNonZero(player, ray.hit, ray.rangle - player.angle * FINE)
        /\ 0 \notin RowDivisors(ray.col)

\* wallHeight > SCREEN_HEIGHT, for the corrected distance d
Tall(d) == (MAP_CELL_SIZE * SCREEN_HEIGHT * DepthOne) \div SCREEN_HEIGHT > d

\* The texture row sampled for the k-th row of a strip's wall.
SampledRow(col, k) == (col.textureStart + k * col.textureStep) \div TexDen

Gap(a, b) == IF a < b THEN b - a ELSE a - b

\* C22: for a corrected distance above zero the wall bounds are in order
\* and within the screen; a wall taller than the screen has the bounds 0 and
\* SCREEN_HEIGHT, the step TEXTURE_SIZE / wallHeight and the start
\* (wallHeight - SCREEN_HEIGHT) / 2 * TEXTURE_SIZE / wallHeight, so that as
\* much of the texture is cut above the first sample as below the end of the
\* last, and the rows left out at the top and the bottom differ by one at
\* most.
C22_WallSlice ==
    (ray.pc = "painted" /\ ray.correctedDistance > 0) =>
        /\ 0 <= ray.col.wallTop
        /\ ray.col.wallTop <= ray.col.wallBottom
        /\ ray.col.wallBottom <= SCREEN_HEIGHT
        /\ Tall(ray.correctedDistance) =>
              /\ ray.col.wallTop = 0
              /\ ray.col.wallBottom = SCREEN_HEIGHT
              /\ ray.col.textureStep * ((MAP_CELL_SIZE * SCREEN_HEIGHT * DepthOne) \div TexDen)
                    = TEXTURE_SIZE * ray.correctedDistance
              /\ 2 * ray.col.textureStart
                    = TexDen * TEXTURE_SIZE - SCREEN_HEIGHT * ray.col.textureStep
              /\ ray.col.textureStart
                    = TEXTURE_SIZE * TexDen
                        - (ray.col.textureStart + SCREEN_HEIGHT * ray.col.textureStep)
              /\ SampledRow(ray.col, 0) >= 0
              /\ SampledRow(ray.col, SCREEN_HEIGHT - 1) <= TEXTURE_SIZE - 1
              /\ Gap(SampledRow(ray.col, 0),
                     TEXTURE_SIZE - 1 - SampledRow(ray.col, SCREEN_HEIGHT - 1)) <= 1

\* A wall taller than the screen, whose texture is cut at both ends.
C22_Witness ==
    /\ ray.pc = "painted"
    /\ ray.correctedDistance > 0
    /\ Tall(ray.correctedDistance)
    /\ ray.col.wallTop = 0 /\ ray.col.wallBottom = SCREEN_HEIGHT
    /\ SampledRow(ray.col, 0) > 0
    /\ SampledRow(ray.col, SCREEN_HEIGHT - 1) < TEXTURE_SIZE - 1

\* The sprite loop has computed the locals of a sprite.
Projected == spr.loc # NoLocals

\* C23 as stated: angle_diff is above -180 and at most 180 degrees.
C23_BearingHalfOpen ==
    Projected => (spr.loc.angle_diff > -1800 /\ spr.loc.angle_diff <= 1800)

\* C23: angle_diff is at least -180 and at most 180 degrees.
C23_BearingClosed ==
    Projected => (spr.loc.angle_diff >= -1800 /\ spr.loc.angle_diff <= 1800)

\* A sprite straight behind the player, whose angle_diff is -180.
C23_Witness ==
    /\ Projected
    /\ player = BackTurned
    /\ spr.loc.angle_diff = -1800
    /\ spr.loc.skip = "near"

\* The sprite is nearer than 1.0 along the facing direction, behind the
\* player included, or its height on screen is above 2 * SCREEN_HEIGHT.
TooNear(s, pl) == PerpDist(s, pl) < DepthOne

TooLarge(s, pl) ==
    /\ ~TooNear(s, pl)
    /\ CDiv(MAP_CELL_SIZE * SCREEN_HEIGHT * DepthOne, PerpDist(s, pl)) > 2 * SCREEN_HEIGHT

\* The sprite loop is at the sprite sprites[spr.i].
AtSprite == spr.pc = "loop" /\ spr.i >= 1 /\ spr.i <= Len(sprites)

\* C24: the iteration of the sprite loop for a sprite that is too near or
\* too large goes on to the next sprite with no column tested and no pixel
\* written; and no column is ever tested for such a sprite.
C24_DegenerateSkipped ==
    /\ [][(AtSprite /\ (TooNear(sprites[spr.i], player) \/ TooLarge(sprites[spr.i], player)))
            => /\ spr'.pc = "loop"
               /\ spr'.i = spr.i + 1
               /\ spr'.col = NoColumn
               /\ pixels' = pixels]_vars
    /\ [](spr.pc = "columns" =>
            /\ ~TooNear(sprites[spr.i], player)
            /\ ~TooLarge(sprites[spr.i], player))

\* The loop has passed a sprite behind the player and has just skipped one
\* that is too large.
C24_Witness ==
    /\ spr.pc = "loop"
    /\ Projected
    /\ spr.loc.skip = "large"
    /\ spr.col = NoColumn
    /\ TooLarge(spr.visited[Len(spr.visited)], player)
    /\ \E k \in 1..Len(spr.visited) : PerpDist(spr.visited[k], player) < 0

\* The pixels of the 3D viewport, as indices into pixels[].
Viewport ==
    {PixelIndex(x, y) : x \in VP_LEFT..(SCREEN_WIDTH - 1), y \in 0..(SCREEN_HEIGHT - 1)}

\* The r_drawpoint calls of the column the sprite loop has just been
\* through, whether r_drawpoint stores them or not.
ColumnCalls ==
    IF BehindWall(spr.loc.perpDist, spr.col.wall_d) THEN {}
    ELSE {<<spr.col.x, y>> : y \in OpaqueRows(spr.loc, spr.col.x)}

\* A column of a sprite has been through the column loop.
ColumnTested == spr.col # NoColumn

\* C25: every r_drawpoint call of a sprite column is at a pixel of the 3D
\* viewport, x from 512 to SCREEN_WIDTH - 1 and y from 0 to SCREEN_HEIGHT - 1,
\* and so is every pixel stored; none is in the map half of the screen.
C25_SpritesInViewport ==
    ColumnTested =>
        /\ spr.col.x >= VP_LEFT /\ spr.col.x <= SCREEN_WIDTH - 1
        /\ \A c \in ColumnCalls :
              /\ c[1] >= VP_LEFT /\ c[1] <= SCREEN_WIDTH - 1
              /\ c[2] >= 0 /\ c[2] <= SCREEN_HEIGHT - 1
        /\ spr.col.written \subseteq Viewport
        /\ \A p \in spr.col.written : p % SCREEN_WIDTH >= VP_LEFT

\* A sprite cut by the left edge of the viewport and by the top and bottom
\* of the screen, with pixels stored in its leftmost column.
C25_Witness ==
    /\ ColumnTested
    /\ spr.loc.texX_start > 0
    /\ spr.loc.texY_start > 0
    /\ spr.col.x = VP_LEFT
    /\ spr.col.written # {}

\* A quit event or an Escape key press has been processed.
Quitting == ~frame.engine_on

\* The loop is inside a frame.
MidFrame == frame.pc \notin {"inputs", "exited"}

\* C26: once a quit event or an Escape key press is processed the flag
\* stays down, the frame under way runs through every writer and is
\* presented, and the loop exits with no other frame begun; no step inside
\* a frame reads the flag, changes it or leaves the loop, and a frame begun
\* comes to its end; with the flag up the loop test lets the next frame in.
C26_QuitBetweenFrames ==
    /\ [][Quitting => ~frame'.engine_on]_vars
    /\ [][(frame.pc = "inputs" /\ frame'.pc # "inputs") =>
            (Quitting <=> frame'.pc = "exited")]_vars
    /\ [][MidFrame =>
            /\ frame'.engine_on = frame.engine_on
            /\ frame'.pc # "exited"
            /\ frame'.pc = "inputs" => (frame.pc = "present" /\ frame'.shown = Writers)]_vars
    /\ [](frame.pc = "exited" => (Quitting /\ frame.shown = Writers))
    /\ MidFrame ~> ~MidFrame
    /\ (frame.pc = "inputs" /\ ~Quitting /\ frame.n < MaxLoops) ~> MidFrame
    /\ Quitting ~> (frame.pc = "exited" /\ frame.shown = Writers)

\* The loop has exited after a second frame, in which the quit event came.
C26_Witness ==
    /\ frame.pc = "exited"
    /\ frame.n = 2
    /\ frame.shown = Writers
    /\ Quitting

(***************************************************************************)
(* SpecWalk: process_inputs frame after frame from the initial player on   *)
(* the shipped grids, far enough to walk into walls and sprites.  The      *)
(* first MaxTurns frames take every combination of the four keys; the      *)
(* frames after them hold one movement key.  frame.from is the player at   *)
(* the entry of the last frame.                                            *)
(***************************************************************************)
MaxWalk == 72
MaxTurns == 2

WalkKeys(n) == IF n < MaxTurns THEN SUBSET Keys ELSE {{"up"}, {"down"}}

InitWalk ==
    /\ pixels = ClearScreenBuffer([fill |-> BACKGROUND, written |-> NoWrites])
    /\ last = NoOp
    /\ IdleLine /\ IdleShade /\ IdleRay /\ IdleSprites
    /\ map = ShippedMap
    /\ player = InitialPlayer
    /\ lookup = [fn |-> "none"]
    /\ frame = [pc |-> "inputs", engine_on |-> TRUE, n |-> 0, keys |-> {},
                from |-> InitialPlayer]

WalkInputs ==
    /\ frame.pc = "inputs"
    /\ frame.engine_on
    /\ frame.n < MaxWalk
    /\ \E keys \in WalkKeys(frame.n), quit \in BOOLEAN :
          /\ player' = ProcessKeys(map, map_sprites, player, keys)
          /\ frame' = [frame EXCEPT !.engine_on = ~quit, !.keys = keys,
                                    !.n = frame.n + 1, !.from = player]
    /\ UNCHANGED idleInInput

NextWalk == WalkInputs

SpecWalk == InitWalk /\ [][NextWalk]_vars

\* The last frame held one movement key: 1 for forward, -1 for backward.
OneWay == frame.n > 0 /\ frame.keys \cap {"up", "down"} \in {{"up"}, {"down"}}
Way == IF "up" \in frame.keys THEN 1 ELSE -1

\* The player of the last frame after its rotation keys.
Turned == AfterRight(AfterLeft(frame.from, frame.keys), frame.keys)

\* The candidates of the last frame and whether check_collision refused
\* them: new_x with the old y, new_y with the x the first test left.
NewX == Turned.x + Way * CDiv(Turned.dx * STRIDE, TrigOne)
NewY == Turned.y + Way * CDiv(Turned.dy * STRIDE, TrigOne)
BlockedX == CheckCollision(map, map_sprites, NewX, frame.from.y)
BlockedY == CheckCollision(map, map_sprites, player.x, NewY)

\* C27: after any frames from (200, 195) on the shipped grids
\* check_collision(player.x, player.y) is false, and in a frame with one
\* movement key a refused X candidate leaves player.x as it was and a
\* refused Y candidate leaves player.y as it was, an accepted one being
\* taken.
C27_NeverInBlockedCell ==
    /\ ~CheckCollision(map, map_sprites, player.x, player.y)
    /\ OneWay =>
          /\ player.x = (IF BlockedX THEN frame.from.x ELSE NewX)
          /\ player.y = (IF BlockedY THEN frame.from.y ELSE NewY)

\* Walking backward the player has slid along the top wall into the corner
\* the sprite of cell (1, 1) makes with it: both candidates are refused and
\* the frame leaves the player where it was.
C27_Witness ==
    /\ OneWay /\ Way = -1
    /\ BlockedX /\ BlockedY
    /\ NewX # frame.from.x /\ NewY # frame.from.y
    /\ player.x = frame.from.x /\ player.y = frame.from.y

\* The smaller and the larger of two numbers.
Lower(a, b) == IF a <= b THEN a ELSE b
Upper(a, b) == IF a <= b THEN b ELSE a

\* What the depth test of a column looked up: both indices in the buffer,
\* t in [0, 1] (w.t in parts of w.parts), wall_d between the two entries.
LookupInRange(wd, w) ==
    /\ w.r0 \in Rays /\ w.r1 \in Rays
    /\ w.r0 <= w.r1 /\ w.r1 <= w.r0 + 1
    /\ 0 <= w.t /\ w.t <= w.parts
    /\ Lower(wd[w.r0], wd[w.r1]) <= w.wall_d
    /\ w.wall_d <= Upper(wd[w.r0], wd[w.r1])

\* C28: for every column x of a sprite's footprint, all of them in
\* 512..1023, r0 and r1 are in 0..RAY_COUNT-1, t is in [0, 1] and the
\* interpolated wall distance lies between the two buffer entries.
C28_DepthLookupInRange ==
    ColumnDone =>
        \A x \in spr.loc.drawStartX..spr.loc.drawEndX :
            /\ VP_LEFT <= x /\ x < SCREEN_WIDTH
            /\ LookupInRange(wall_distances, WallDepth(wall_distances, x))

\* A footprint from the left edge of the viewport, where r1 = 256 is
\* lowered to 255 and t set to 0, over walls that alternate, so that the
\* columns between two rays take a distance strictly between two entries.
C28_Witness ==
    /\ ColumnDone
    /\ wall_distances = AlternatingWalls
    /\ spr.loc.drawStartX = VP_LEFT
    /\ WallDepth(wall_distances, VP_LEFT).r0 = RAY_COUNT - 1
    /\ WallDepth(wall_distances, VP_LEFT).r1 = RAY_COUNT - 1
    /\ WallDepth(wall_distances, VP_LEFT).t = 0
    /\ \E x \in spr.loc.drawStartX..spr.loc.drawEndX :
          /\ WallDepth(wall_distances, x).t > 0
          /\ WallDepth(wall_distances, x).wall_d > 1500000
          /\ WallDepth(wall_distances, x).wall_d < 2500000

(***************************************************************************)
(* r_draw_hud: the crosshair through r_drawline, then the pistol and the   *)
(* demo HUD stored into pixels[] directly, a row of the image at a step.   *)
(* The indices a row stores to are kept in frame.stored, `pixels` holding  *)
(* what went through r_drawpoint.                                          *)
(***************************************************************************)
CROSSHAIR_COLOR == <<255, 69, 255, 23>>     \* 0xFF45FF17
PISTOL_AT == 390876
PISTOL_W == 122
PISTOL_H == 131
HUD_AT == 486258
HUD_W == 142
HUD_H == 38

\* pistol[i].  The image is in asset/assets.h; what is kept of it is which
\* of its pixels hold the transparent colour: none, all, or every other
\* column.
PistolImages == {"opaque", "clear", "striped"}

PistolTexel(image, i) ==
    IF image = "clear" \/ (image = "striped" /\ (i % PISTOL_W) % 2 = 1)
    THEN TRANSPARENT ELSE OPAQUE_TEXEL

\* 390876 + (y*1024) + x
PistolIndex(x, y) == PISTOL_AT + y * 1024 + x

\* 486258 + (y*1024) + x
HudIndex(x, y) == HUD_AT + y * 1024 + x

\* for(y = 0; y<131; y++)
PistolRows == 0..(PISTOL_H - 1)

\* A mutant of the row loop of the demo HUD: y <= 38.
HudRowsInclusive == 0..HUD_H

\* for(y = 0; y<38; y++)
HudRows == 0..(HUD_H - 1)

\* The indices row y of the pistol stores to: the pixels of the row that
\* are not transparent.
PistolStores(image, y) ==
    {PistolIndex(x, y) :
        x \in {v \in 0..(PISTOL_W - 1) : PistolTexel(image, y * PISTOL_W + v) # TRANSPARENT}}

\* The indices row y of the demo HUD stores to: every pixel of the row.
HudStores(y) == {HudIndex(x, y) : x \in 0..(HUD_W - 1)}

InitHud ==
    /\ pixels = ClearScreenBuffer([fill |-> BACKGROUND, written |-> NoWrites])
    /\ last = NoOp
    /\ IdleLine /\ IdleShade /\ IdleRay /\ IdleSprites
    /\ StartPose
    /\ lookup = [fn |-> "none"]
    /\ \E image \in PistolImages :
          frame = [pc |-> "crosshair", y |-> 0, image |-> image, stored |-> {}]

\* The two r_drawline calls.
HudCrosshair ==
    /\ frame.pc = "crosshair"
    /\ pixels' = DrawLine(DrawLine(pixels, 763, 256, 773, 256, CROSSHAIR_COLOR),
                          768, 251, 768, 261, CROSSHAIR_COLOR)
    /\ frame' = [frame EXCEPT !.pc = "pistol", !.y = 0]
    /\ UNCHANGED idleInHud

\* An iteration of the row loop of the pistol: the inner loop over x.
HudPistolRow ==
    /\ frame.pc = "pistol"
    /\ frame.y \in PistolRows
    /\ frame' = [frame EXCEPT !.y = frame.y + 1,
                              !.stored = PistolStores(frame.image, frame.y)]
    /\ UNCHANGED <<pixels, idleInHud>>

HudPistolDone ==
    /\ frame.pc = "pistol"
    /\ frame.y \notin PistolRows
    /\ frame' = [frame EXCEPT !.pc = "hud", !.y = 0]
    /\ UNCHANGED <<pixels, idleInHud>>

\* An iteration of the row loop of the demo HUD: the inner loop over x.
HudRow ==
    /\ frame.pc = "hud"
    /\ frame.y \in HudRows
    /\ frame' = [frame EXCEPT !.y = frame.y + 1, !.stored = HudStores(frame.y)]
    /\ UNCHANGED <<pixels, idleInHud>>

HudDone ==
    /\ frame.pc = "hud"
    /\ frame.y \notin HudRows
    /\ frame' = [frame EXCEPT !.pc = "done"]
    /\ UNCHANGED <<pixels, idleInHud>>

NextHud == HudCrosshair \/ HudPistolRow \/ HudPistolDone \/ HudRow \/ HudDone

SpecHud == InitHud /\ [][NextHud]_vars

\* C29: every store into the framebuffer is at an index in
\* 0..SCREEN_WIDTH*SCREEN_HEIGHT-1: those of the crosshair, which go
\* through r_drawpoint, and those of the pistol and of the demo HUD, which
\* index pixels[] with no test.
C29_WritesInBuffer ==
    /\ DOMAIN pixels.written \subseteq 0..(SCREEN_WIDTH * SCREEN_HEIGHT - 1)
    /\ frame.stored \subseteq 0..(SCREEN_WIDTH * SCREEN_HEIGHT - 1)

\* r_draw_hud has returned with a pistol of no transparent pixel: the
\* crosshair is in the buffer and the last row of the demo HUD has stored
\* to the last pixel of the buffer.
C29_Witness ==
    /\ frame.pc = "done"
    /\ frame.image = "opaque"
    /\ PixelIndex(768, 256) \in DOMAIN pixels.written
    /\ PistolIndex(PISTOL_W - 1, PISTOL_H - 1) < SCREEN_WIDTH * SCREEN_HEIGHT
    /\ HudIndex(HUD_W - 1, HUD_H - 1) = SCREEN_WIDTH * SCREEN_HEIGHT - 1
    /\ HudIndex(HUD_W - 1, HUD_H - 1) \in frame.stored

(***************************************************************************)
(* The texture reads of r_raycast and r_render_sprites: the coordinates    *)
(* each one computes and the index texY * TEXTURE_SIZE + texX it reads at. *)
(* World coordinates are in hundredths.                                    *)
(***************************************************************************)
\* fmod(v, m): the remainder has the sign of v
Fmod(v, m) == v - m * CDiv(v, m)

\* (int)(offset * TEXTURE_SIZE / MAP_CELL_SIZE)
ToTexel(offset) == CDiv(offset * TEXTURE_SIZE, CELL)

\* A mutant of the mask: the remainder of the C division, which keeps the
\* sign.
MaskTexRemainder(n) == Fmod(n, TEXTURE_SIZE)

\* n & (TEXTURE_SIZE - 1), of a two's complement int
MaskTex(n) == n % TEXTURE_SIZE

\* textureX of a wall hit at the coordinate h along the wall
WallTextureX(h) ==
    IF ToTexel(Fmod(h, CELL)) >= TEXTURE_SIZE THEN TEXTURE_SIZE - 1
    ELSE IF ToTexel(Fmod(h, CELL)) < 0 THEN 0
    ELSE ToTexel(Fmod(h, CELL))

\* textureY of the k-th row of a wall slice
WallTextureY(b, k) ==
    IF (b.textureStart + k * b.textureStep) \div TexDen >= TEXTURE_SIZE THEN TEXTURE_SIZE - 1
    ELSE IF (b.textureStart + k * b.textureStep) \div TexDen < 0 THEN 0
    ELSE (b.textureStart + k * b.textureStep) \div TexDen

\* floorTexX, floorTexY, ceilTexX, ceilTexY of a finite world coordinate
PlaneTex(v) == MaskTex(ToTexel(Fmod(v, CELL)))

\* What (int) may give for a value that is not finite (the row of the
\* horizon of a ray with no hit): the conversion is undefined.
UndefinedInts == {-2147483647 - 1, -1, 0, TEXTURE_SIZE, 2147483647}

\* texY * TEXTURE_SIZE + texX
TexelIndex(texX, texY) == texY * TEXTURE_SIZE + texX

(***************************************************************************)
(* SpecTexel: one texture read, for hit points along the grid, for wall    *)
(* slices near and far, for floor and ceiling points inside and outside    *)
(* the grid, and for sprites of every size cut by the viewport.            *)
(***************************************************************************)
MaxTexelSamples == 48

\* Coordinates along a wall, the grid lines among them.
HitCoords ==
    {(k * MAPX * CELL) \div MaxTexelSamples : k \in 0..MaxTexelSamples}
    \cup {CELL - 1, CELL, MAPX * CELL - 1}

\* Corrected distances, from a hundredth of a unit to beyond the grid.
SliceDistances == {100, 9999, 250000, 639999, 640000, 1234567, 7250000}

\* World coordinates of floor and ceiling points, from ten cells before
\* the grid to ten cells after it.
PlaneCoords ==
    {(k * 28 * CELL) \div MaxTexelSamples - 10 * CELL - 1 : k \in 0..MaxTexelSamples}

SpriteSizes == {1, 7, 64, 100, 513, 1024}
SpriteStarts == {-600, 0, 400, 512, 700, 1000}

\* The rows of a wall slice that are followed: the first, the last and
\* MaxTexelSamples between them.
SliceRows(b) ==
    {b.wallTop + ((b.wallBottom - 1 - b.wallTop) * k) \div MaxTexelSamples :
        k \in 0..MaxTexelSamples}

InitTexel ==
    /\ pixels = ClearScreenBuffer([fill |-> BACKGROUND, written |-> NoWrites])
    /\ last = NoOp
    /\ IdleLine /\ IdleShade /\ IdleRay /\ IdleSprites
    /\ StartPose
    /\ frame = [pc |-> "idle"]
    /\ lookup = [fn |-> "none"]

\* wallTexture[textureY * TEXTURE_SIZE + textureX]
TexelWall ==
    /\ lookup.fn = "none"
    /\ \E h \in HitCoords, d \in SliceDistances :
       \E y \in SliceRows(WallBounds(d)) :
          lookup' = [fn |-> "wall", a |-> h, b |-> d,
                     texX |-> WallTextureX(h),
                     texY |-> WallTextureY(WallBounds(d), y - WallBounds(d).wallTop),
                     index |-> TexelIndex(WallTextureX(h),
                                          WallTextureY(WallBounds(d), y - WallBounds(d).wallTop))]
    /\ UNCHANGED idleInTexel

\* ground[floorTexY * TEXTURE_SIZE + floorTexX]
TexelFloor ==
    /\ lookup.fn = "none"
    /\ \E floorX \in PlaneCoords, floorY \in PlaneCoords :
          lookup' = [fn |-> "floor", a |-> floorX, b |-> floorY,
                     texX |-> PlaneTex(floorX), texY |-> PlaneTex(floorY),
                     index |-> TexelIndex(PlaneTex(floorX), PlaneTex(floorY))]
    /\ UNCHANGED idleInTexel

\* ceiling[ceilTexY * TEXTURE_SIZE + ceilTexX]
TexelCeiling ==
    /\ lookup.fn = "none"
    /\ \E ceilX \in PlaneCoords, ceilY \in PlaneCoords :
          lookup' = [fn |-> "ceiling", a |-> ceilX, b |-> ceilY,
                     texX |-> PlaneTex(ceilX), texY |-> PlaneTex(ceilY),
                     index |-> TexelIndex(PlaneTex(ceilX), PlaneTex(ceilY))]
    /\ UNCHANGED idleInTexel

\* The floor read of a row whose distance is not finite.
TexelHorizon ==
    /\ lookup.fn = "none"
    /\ \E nx \in UndefinedInts, ny \in UndefinedInts :
          lookup' = [fn |-> "horizon", a |-> nx, b |-> ny,
                     texX |-> MaskTex(nx), texY |-> MaskTex(ny),
                     index |-> TexelIndex(MaskTex(nx), MaskTex(ny))]
    /\ UNCHANGED idleInTexel

\* tex[texY * TEXTURE_SIZE + texX]
TexelSprite ==
    /\ lookup.fn = "none"
    /\ \E size \in SpriteSizes, startX \in SpriteStarts :
       \E P \in {Placed([type |-> 1, dist |-> 0], 0, DepthOne, size,
                        ClipY(size, StartY(size), EndY(size)),
                        ClipX(size, startX, startX + size))} :
          /\ P.skip = "no"
          /\ \E x \in {P.drawStartX, P.drawEndX}, y \in {P.drawStartY, P.drawEndY} :
                lookup' = [fn |-> "sprite", a |-> x, b |-> y,
                           texX |-> SpriteTexX(P, x), texY |-> SpriteTexY(P, y),
                           index |-> TexelIndex(SpriteTexX(P, x), SpriteTexY(P, y))]
    /\ UNCHANGED idleInTexel

NextTexel == TexelWall \/ TexelFloor \/ TexelCeiling \/ TexelHorizon \/ TexelSprite

SpecTexel == InitTexel /\ [][NextTexel]_vars

\* C30: every texture read is at an index in 0..TEXTURE_SIZE*TEXTURE_SIZE-1
\* with both coordinates in 0..TEXTURE_SIZE-1: the wall and the sprite
\* coordinates by their clamps, the floor and the ceiling coordinates by
\* their mask, for negative world coordinates and for points outside the
\* grid too.
C30_TexelInRange ==
    lookup.fn # "none" =>
        /\ lookup.texX \in 0..(TEXTURE_SIZE - 1)
        /\ lookup.texY \in 0..(TEXTURE_SIZE - 1)
        /\ lookup.index \in 0..(TEXTURE_SIZE * TEXTURE_SIZE - 1)

\* A floor point left of the grid and below it: fmod gives a negative
\* offset for its x, which the mask brings back into the texture.
C30_Witness ==
    /\ lookup.fn = "floor"
    /\ lookup.a < -CELL /\ ToTexel(Fmod(lookup.a, CELL)) < 0
    /\ lookup.b > MAPY * CELL
    /\ lookup.texX > 0

====
